---- MODULE Spec2Model ----
(***************************************************************************)
(* Model of the Fantom Nano Ledger bridge: src/src/fantom-nano.js (the     *)
(* revision at lines 520-1118, chunk size 150) and src/src/utils.js, and   *)
(* of the transaction builders of src/src/sfc-utils.js and                 *)
(* src/src/defi-utils.js.                                                  *)
(*                                                                         *)
(* One FantomNano instance talks to one transport.  API calls are started  *)
(* by callers, every command put on the transport stays outstanding until  *)
(* the environment (device + transport) answers it, and the continuation   *)
(* of the call that awaited the answer runs to its next await.             *)
(***************************************************************************)
EXTENDS Integers, Sequences, FiniteSets, TLC

VARIABLES
    appAPIlock,   \* transport._appAPIlock: NoLock or the name of the running API method
    call,         \* per caller: the API call it makes and the position of its continuation
    wire          \* commands sent on the transport whose response has not arrived yet

vars == <<appAPIlock, call, wire>>

-----------------------------------------------------------------------------
(* Bounds of the model *)

\* number of callers in the concurrent specification
NumCalls == 2
\* largest number of chunks a modelled signing payload needs
MaxParts == 3
\* largest `length` argument drawn for listAddresses
MaxListLen == 2

-----------------------------------------------------------------------------
(* Program constants *)

CLA == 224
INS_GET_VERSION == 1
INS_GET_PUBLIC_KEY == 16
INS_GET_ADDRESS == 17
INS_SIGN_TRANSACTION == 32
SIGN_STATE_COLLECT == 2
SIGN_STATE_FINALIZE == 4
MAX_APDU_CHUNK_LENGTH == 150
FANTOM_CHAIN_ID == 250

-----------------------------------------------------------------------------
(* JavaScript numbers.  TLC integers are 32 bit signed, so a number is held *)
(* as two 16 bit limbs: value = hi * 65536 + lo with lo in 0..65535; hi may *)
(* be negative or exceed 65535 for values outside the unsigned 32 bit range.*)
(* kind "frac" is a non-integer number, kind "undefined" is what indexing   *)
(* an array past its end yields.                                           *)

Num(h, l) == [kind |-> "int", hi |-> h, lo |-> l]
Frac == [kind |-> "frac", hi |-> 0, lo |-> 0]
Undefined == [kind |-> "undefined", hi |-> 0, lo |-> 0]

\* x >= y of two JavaScript values (false when either is not a number)
NumGE(x, y) ==
    /\ x.kind # "undefined" /\ y.kind # "undefined"
    /\ IF x.kind = "int" /\ y.kind = "int"
       THEN x.hi > y.hi \/ (x.hi = y.hi /\ x.lo >= y.lo)
       ELSE \* a fraction lies strictly between lo and lo + 1 of its own limbs
            IF x.kind = "frac" /\ y.kind = "int"
            THEN x.hi > y.hi \/ (x.hi = y.hi /\ x.lo >= y.lo)
            ELSE IF x.kind = "int" /\ y.kind = "frac"
            THEN x.hi > y.hi \/ (x.hi = y.hi /\ x.lo > y.lo)
            ELSE x.hi > y.hi \/ (x.hi = y.hi /\ x.lo >= y.lo)

\* x + n for a small natural n
NumAdd(x, n) ==
    [kind |-> x.kind, hi |-> x.hi + ((x.lo + n) \div 65536), lo |-> (x.lo + n) % 65536]

\* x + y of two integers
NumPlus(x, y) ==
    [kind |-> IF x.kind = "int" /\ y.kind = "int" THEN "int" ELSE "frac",
     hi |-> x.hi + y.hi + ((x.lo + y.lo) \div 65536),
     lo |-> (x.lo + y.lo) % 65536]

\* path[i] with JavaScript's zero based index
At(path, i) == IF i + 1 \in DOMAIN path THEN path[i + 1] ELSE Undefined

\* bitwise OR of two naturals
RECURSIVE BitOr(_, _)
BitOr(a, b) ==
    IF a = 0 THEN b
    ELSE IF b = 0 THEN a
    ELSE (IF (a % 2 = 1) \/ (b % 2 = 1) THEN 1 ELSE 0) + 2 * BitOr(a \div 2, b \div 2)

\* the number a boolean converts to under a bitwise operator
BoolToInt32(b) == IF b THEN 1 ELSE 0

BIP32_HARDENED == Num(32768, 0)

-----------------------------------------------------------------------------
(* utils.js: assertions.  Each is TRUE when the JavaScript assertion passes  *)
(* and FALSE when it throws Error("Data validation failed!").               *)

isInteger(data) == data.kind = "int"

isUint8(data) ==
    /\ isInteger(data)
    /\ NumGE(data, Num(0, 0))
    /\ NumGE(Num(0, 255), data)

isUint32(data) ==
    /\ isInteger(data)
    /\ NumGE(data, Num(0, 0))
    /\ NumGE(Num(65535, 65535), data)

\* `path[0] === BIP32_HARDENED | 44`: === binds tighter than |, so the
\* comparison's boolean is OR-ed with the number and the result is tested
\* for truthiness
PrefixCheck(x, n) == BitOr(BoolToInt32(x = BIP32_HARDENED), n) # 0

isValidBip32Path(path) ==
    /\ \A i \in DOMAIN path : isUint32(path[i])
    /\ PrefixCheck(At(path, 0), 44)
    /\ PrefixCheck(At(path, 1), 60)
    /\ NumGE(At(path, 2), BIP32_HARDENED)

-----------------------------------------------------------------------------
(* utils.js: buffers *)

HexChars == <<"0", "1", "2", "3", "4", "5", "6", "7",
              "8", "9", "a", "b", "c", "d", "e", "f">>

\* b.toString(16).padStart(2, "0") of one byte
ByteHex(b) == HexChars[(b \div 16) + 1] \o HexChars[(b % 16) + 1]

RECURSIVE buffer2Hex(_)
buffer2Hex(buffer) ==
    IF buffer = <<>> THEN ""
    ELSE ByteHex(Head(buffer)) \o buffer2Hex(Tail(buffer))

\* Buffer.slice(start, end): both ends clamped to the buffer
slice(buf, start, end) ==
    SubSeq(buf, start + 1, IF end < Len(buf) THEN end ELSE Len(buf))

\* the four bytes writeUInt32BE stores for a value
UInt32BE(x) == <<x.hi \div 256, x.hi % 256, x.lo \div 256, x.lo % 256>>

RECURSIVE PathBytes(_)
PathBytes(path) ==
    IF path = <<>> THEN <<>> ELSE UInt32BE(Head(path)) \o PathBytes(Tail(path))

\* [ok, data]: ok is FALSE when the validation at its head throws
bip32PathToBuffer(path) ==
    IF isValidBip32Path(path)
    THEN [ok |-> TRUE, data |-> <<Len(path)>> \o PathBytes(path)]
    ELSE [ok |-> FALSE, data |-> <<>>]

\* a strip that looks at the first byte of the return code only
stripReturnCodeFirstByte(response) ==
    IF ~(Len(response) >= 2)
    THEN [ok |-> FALSE, data |-> <<>>, message |-> "Data validation failed!"]
    ELSE LET rtIndex == Len(response) - 2
             returnCode == slice(response, rtIndex, rtIndex + 2)
         IN IF ByteHex(returnCode[1]) # "90"
            THEN [ok |-> FALSE, data |-> <<>>,
                  message |-> "Invalid response status code "
                              \o buffer2Hex(returnCode) \o " received."]
            ELSE [ok |-> TRUE, data |-> slice(response, 0, rtIndex), message |-> ""]

\* [ok, data, message]: the payload, or the message of the error thrown
stripReturnCodeFromResponse(response) ==
    IF ~(Len(response) >= 2)
    THEN [ok |-> FALSE, data |-> <<>>, message |-> "Data validation failed!"]
    ELSE LET rtIndex == Len(response) - 2
             returnCode == slice(response, rtIndex, rtIndex + 2)
         IN IF buffer2Hex(returnCode) # "9000"
            THEN [ok |-> FALSE, data |-> <<>>,
                  message |-> "Invalid response status code "
                              \o buffer2Hex(returnCode) \o " received."]
            ELSE [ok |-> TRUE, data |-> slice(response, 0, rtIndex), message |-> ""]

-----------------------------------------------------------------------------
(* fantom-nano.js: error messages *)

RECURSIVE ToHex(_)
\* status.toString(16)
ToHex(n) == IF n < 16 THEN HexChars[n + 1] ELSE ToHex(n \div 16) \o HexChars[(n % 16) + 1]

ErrorMessages ==
    [code \in 28161..28169 |->
        CASE code = 28161 -> "Invalid request header sent to the hw wallet."
          [] code = 28162 -> "Unknown service class, please use correct service identifier."
          [] code = 28163 -> "Unknown instruction sent, please send a supported instruction."
          [] code = 28164 -> "Invalid instruction state, the instruction sequence did not follow the protocol."
          [] code = 28165 -> "Invalid instruction parameters."
          [] code = 28166 -> "Data sent with the request has not been recognized."
          [] code = 28167 -> "User rejected requested action."
          [] code = 28168 -> "Requested action has been denied by security policy."
          [] code = 28169 -> "Can not proceed with the instruction, please unlock the device."]

getErrorMessage(status) ==
    LET statusCodeHex == "0x" \o ToHex(status)
        defaultMsg == "Unknown error " \o statusCodeHex \o ". Please consult the manual."
    IN IF status \in DOMAIN ErrorMessages THEN ErrorMessages[status] ELSE defaultMsg

\* An error is [message, statusCode]; statusCode -1 stands for an error object
\* without a statusCode property.
Err(m) == [message |-> m, statusCode |-> -1]
NoError == Err("")
ValidationError == Err("Data validation failed!")
NotRecognizedError == Err("Transaction data was not recognized on the Ledger device!")

\* the catch block of wrapConvertError: the error it re-throws
wrapConvertError(e) ==
    IF e.statusCode # -1 /\ e.statusCode # 0     \* e.statusCode is truthy
    THEN [e EXCEPT !.message = "Ledger device: " \o getErrorMessage(e.statusCode)]
    ELSE e

-----------------------------------------------------------------------------
(* fantom-nano.js: paths, transactions, chunks *)

\* a path builder that does not check the range of the account
getBip32PathAnyAccount(accountId, addressId) ==
    IF ~(isInteger(accountId) /\ isUint32(addressId))
    THEN [ok |-> FALSE, path |-> <<>>]
    ELSE LET path == <<NumAdd(BIP32_HARDENED, 44), NumAdd(BIP32_HARDENED, 60),
                       NumPlus(accountId, BIP32_HARDENED), Num(0, 0), addressId>>
         IN [ok |-> isValidBip32Path(path), path |-> path]

\* [ok, path]: ok is FALSE when one of the assertions throws
getBip32Path(accountId, addressId) ==
    IF ~(isUint8(accountId) /\ isUint32(addressId))
    THEN [ok |-> FALSE, path |-> <<>>]
    ELSE LET path == <<NumAdd(BIP32_HARDENED, 44), NumAdd(BIP32_HARDENED, 60),
                       NumPlus(accountId, BIP32_HARDENED), Num(0, 0), addressId>>
         IN [ok |-> isValidBip32Path(path), path |-> path]

REQUIRED_TX_ATTRIBUTES == {"nonce", "gasPrice", "gasLimit", "value"}

\* The tx argument is [type, attrs, raw, len, seed]: "object", "null" or
\* "undefined" (typeof null is "object" too), the names of its own
\* properties, whether its `raw` property is an array, and the length and
\* the first byte of its `data` field.
\* TRUE when isValidTransaction returns, FALSE when it throws.
isValidTransaction(tx) ==
    /\ tx.type = "object"
    /\ \/ ("raw" \in tx.attrs /\ tx.raw)
       \/ \A a \in REQUIRED_TX_ATTRIBUTES : a \in tx.attrs

\* what tx.hasOwnProperty("raw") throws when tx is null
NullPropertyError == Err("Cannot read properties of null (reading 'hasOwnProperty')")

\* The error isValidTransaction throws.  For null, "object" === typeof tx
\* holds and the call of tx.hasOwnProperty throws a TypeError; for anything
\* else the assertions of Assert.hasAttribute throw.
isValidTransactionError(tx) ==
    IF tx.type = "null" THEN NullPropertyError ELSE ValidationError

RECURSIVE Flatten(_)
Flatten(ss) == IF ss = <<>> THEN <<>> ELSE Head(ss) \o Flatten(Tail(ss))

\* The fields of ethereumjs-tx's Transaction, in the order of its `raw` array
TransactionFields == <<"nonce", "gasPrice", "gasLimit", "to", "value", "data", "v", "r", "s">>

\* The buffer the Transaction holds for a field: empty when the object has no
\* such property, else bytes that differ from field to field; `to` is an
\* address of 20 bytes, r and s are 32 bytes, data is tx.len bytes
FieldValue(tx, name) ==
    IF name \notin tx.attrs THEN <<>>
    ELSE CASE name = "nonce" -> <<1>>
           [] name = "gasPrice" -> <<2>>
           [] name = "gasLimit" -> <<3>>
           [] name = "to" -> [i \in 1..20 |-> 63 + i]
           [] name = "value" -> <<5>>
           [] name = "data" -> [i \in 1..tx.len |-> (tx.seed + i - 1) % 256]
           [] name = "v" -> <<28>>
           [] OTHER -> [i \in 1..32 |-> 199 + i]

\* new Transaction(tx, options).raw
TransactionRaw(tx) == [k \in 1..9 |-> FieldValue(tx, TransactionFields[k])]

\* txRaw.getChainId(): the chain id of the options that
\* getTransactionSignatureOptions builds
getChainId == FANTOM_CHAIN_ID

\* ethereumjs-util: toBuffer of a number below 256, stripZeros of a buffer
toBuffer(n) == <<n>>

RECURSIVE stripZeros(_)
stripZeros(b) == IF b # <<>> /\ Head(b) = 0 THEN stripZeros(Tail(b)) ELSE b

\* rlp: the length prefix of a string (offset 0x80) or a list (offset 0xc0)
\* whose content has len bytes, len below 65536
RlpLength(len, offset) ==
    IF len < 56 THEN <<offset + len>>
    ELSE IF len < 256 THEN <<offset + 56, len>>
    ELSE <<offset + 57, len \div 256, len % 256>>

\* rlp: the encoding of one byte string
RlpItem(b) == IF Len(b) = 1 /\ b[1] < 128 THEN b ELSE RlpLength(Len(b), 128) \o b

\* rlp: encode(items) of a list of byte strings
encode(items) ==
    LET body == Flatten([k \in DOMAIN items |-> RlpItem(items[k])])
    IN RlpLength(Len(body), 192) \o body

\* an item list that keeps the zero byte of toBuffer(0)
SigningItemsZeroBytes(tx) ==
    SubSeq(TransactionRaw(tx), 1, 6)
        \o <<toBuffer(getChainId), toBuffer(0), toBuffer(0)>>

\* the items getRawTransaction encodes: txRaw.raw.slice(0, 6) and three more
SigningItems(tx) ==
    SubSeq(TransactionRaw(tx), 1, 6)
        \o <<toBuffer(getChainId), stripZeros(toBuffer(0)), stripZeros(toBuffer(0))>>

\* the signing payload
getRawTransaction(tx) == encode(SigningItems(tx))

\* Math.ceil(a / b)
Ceil(a, b) == IF a % b = 0 THEN a \div b ELSE (a \div b) + 1

\* a chunks loop that counts floor(L / C) + 1 parts
MakeChunksFloor(txBuffer) ==
    LET parts == (Len(txBuffer) \div MAX_APDU_CHUNK_LENGTH) + 1
    IN [i \in 1..parts |->
           slice(txBuffer, (i - 1) * MAX_APDU_CHUNK_LENGTH, i * MAX_APDU_CHUNK_LENGTH)]

\* a chunks loop whose slices end one chunk length too far
MakeChunksWide(txBuffer) ==
    LET parts == Ceil(Len(txBuffer), MAX_APDU_CHUNK_LENGTH)
    IN [i \in 1..parts |->
           slice(txBuffer, (i - 1) * MAX_APDU_CHUNK_LENGTH, (i + 1) * MAX_APDU_CHUNK_LENGTH)]

\* the chunks loop of signTransaction
MakeChunks(txBuffer) ==
    LET parts == Ceil(Len(txBuffer), MAX_APDU_CHUNK_LENGTH)
    IN [i \in 1..parts |->
           slice(txBuffer, (i - 1) * MAX_APDU_CHUNK_LENGTH, i * MAX_APDU_CHUNK_LENGTH)]

-----------------------------------------------------------------------------
(* The transport: commands and the outcomes of transport.send *)

NoLock == "null"

\* a constructor that leaves signTransaction out of the decorated methods
methodsWithoutSign == {"getVersion", "deriveAddress", "derivePublicKey"}

\* a constructor that also names getAddress among the decorated methods
methodsWithGetAddress ==
    {"getVersion", "getAddress", "deriveAddress", "derivePublicKey", "signTransaction"}

\* the names the constructor hands to transport.decorateAppAPIMethods
methods == {"getVersion", "deriveAddress", "derivePublicKey", "signTransaction"}

\* transport.decorateAppAPIMethods replaces each method named in `methods` by
\* a wrapper: it rejects when transport._appAPIlock is set, else sets the lock
\* to the method's name, runs the method and clears the lock when the
\* method's promise settles.  A method not named there runs unwrapped.
IsDecorated(name) == name \in methods

\* a wrapper that lets every call in
NeverBusy(name) == FALSE

\* the wrapper rejects the call
Busy(name) == IsDecorated(name) /\ appAPIlock # NoLock

\* the lock after the wrapper let the method in, and after the method settled
Acquire(name) == IF IsDecorated(name) THEN name ELSE appAPIlock
Release(name) == IF IsDecorated(name) THEN NoLock ELSE appAPIlock

\* the method that sends the commands of an API method
Inner(method) ==
    CASE method \in {"getAddress", "listAddresses"} -> "deriveAddress"
      [] method = "getPublicKey" -> "derivePublicKey"
      [] OTHER -> method

\* the error the wrapper rejects with
BusyError(lock) == Err("Ledger Device is busy (lock " \o lock \o ")")

Command(c, ins, p1, data) ==
    [call |-> c, cla |-> CLA, ins |-> ins, p1 |-> p1, p2 |-> 0, data |-> data]

\* transport.send either returns the response bytes or throws an error
Return(bytes) == [t |-> "return", bytes |-> bytes, err |-> NoError]
Throw(m, code) == [t |-> "throw", bytes |-> <<>>, err |-> [message |-> m, statusCode |-> code]]
OK(payload) == Return(payload \o <<144, 0>>)

\* n bytes s+1, s+2, ...
Bytes(n, s) == [i \in 1..n |-> (s + i) % 256]

\* what the environment may answer to any command when one call is explored
\* in full: every payload shape a handler distinguishes, non-success and
\* truncated status words, and errors thrown by the transport with a status
\* code of the table, with another status code, with status code 0 and
\* without one
AllResponses ==
    {OK(<<>>), OK(<<SIGN_STATE_COLLECT>>), OK(<<SIGN_STATE_FINALIZE>>), OK(<<3>>),
     OK(<<SIGN_STATE_COLLECT, SIGN_STATE_FINALIZE>>),
     OK(<<0>>), OK(<<2, 171>>), OK(<<2, 171, 205>>), OK(<<20>> \o Bytes(20, 160)),
     OK(<<2>> \o Bytes(4, 9)), OK(<<1, 2, 3, 1>>), OK(<<0, 1, 7, 0>>), OK(<<1, 0, 0, 254>>),
     OK(Bytes(64, 0)), OK(Bytes(66, 0)),
     Return(<<SIGN_STATE_FINALIZE, 110, 6>>), Return(<<110, 4>>), Return(<<144>>),
     Return(<<144, 1>>), Return(<<0, 144>>),
     Return(<<>>),
     Throw("Ledger device: UNKNOWN_ERROR (0x6e07)", 28167),
     Throw("Ledger device: UNKNOWN_ERROR (0x6985)", 27013),
     Throw("Ledger device: UNKNOWN_ERROR (0x6e01)", 28161),
     Throw("Ledger device: UNKNOWN_ERROR (0x0)", 0),
     Throw("Failed to exchange with the device", -1)}
    \cup {OK(<<v>> \o Bytes(32, 16) \o Bytes(32, 96)) : v \in {0, 1, 27, 255}}

\* what it may answer when several callers run: per command, the answers
\* that let the call go on, and one failure
FewResponses(cmd) ==
    {Throw("Failed to exchange with the device", -1)} \cup
    CASE cmd.ins = INS_GET_VERSION -> {OK(<<1, 2, 3, 1>>)}
      [] cmd.ins = INS_GET_ADDRESS -> {OK(<<2, 171, 205>>)}
      [] cmd.ins = INS_GET_PUBLIC_KEY -> {OK(<<2>> \o Bytes(4, 9))}
      [] cmd.ins = INS_SIGN_TRANSACTION /\ cmd.p1 = 0 -> {OK(<<>>)}
      [] cmd.ins = INS_SIGN_TRANSACTION /\ cmd.p1 = 1 /\ cmd.data # <<>> ->
             {OK(<<SIGN_STATE_COLLECT>>), OK(<<SIGN_STATE_FINALIZE>>)}
      [] cmd.ins = INS_SIGN_TRANSACTION /\ cmd.p1 = 1 /\ cmd.data = <<>> -> {OK(<<>>)}
      [] OTHER -> {OK(<<27>> \o Bytes(32, 16) \o Bytes(32, 96))}

Responses(cmd, rich) == IF rich THEN AllResponses ELSE FewResponses(cmd)

-----------------------------------------------------------------------------
(* The state of one API call *)

NoTx == [type |-> "object", attrs |-> {}, raw |-> FALSE, len |-> 0, seed |-> 0]

IdleCall ==
    [method |-> "none",     \* the API method the caller invoked
     pc |-> "idle",         \* idle, wait (a command is outstanding), gap
                            \* (listAddresses between two derivations),
                            \* resolved, rejected
     step |-> "none",       \* which command the call waits for
     args |-> <<>>,         \* the numeric arguments the caller passed
     tx |-> NoTx,           \* signTransaction: the tx argument
     chunks |-> <<>>,       \* signTransaction: the chunks array
     idx |-> 0,             \* chunks / paths handed to the device so far
     paths |-> <<>>,        \* listAddresses: the paths array
     path |-> <<>>,         \* the bip32Path the current command is sent for
     confirm |-> FALSE,     \* deriveAddress: confirmAddress
     log |-> <<>>,          \* history: commands sent and responses received
     result |-> <<>>,       \* the value the call resolved with
     error |-> NoError]     \* the error the call rejected with

Snd(cmd) == [e |-> "snd", ins |-> cmd.ins, p1 |-> cmd.p1, data |-> cmd.data, err |-> NoError]
\* the outcome r of transport.send: the bytes returned, or the error it threw
Rcv(r) ==
    [e |-> IF r.t = "throw" THEN "thrown" ELSE "rcv", ins |-> 0, p1 |-> 0, data |-> r.bytes,
     err |-> r.err]

\* the call after it put cmd on the transport and awaits the answer
Sent(st, step, cmd) == [st EXCEPT !.pc = "wait", !.step = step, !.log = Append(@, Snd(cmd))]

Rejected(st, e) == [st EXCEPT !.pc = "rejected", !.step = "none", !.error = e]
Resolved(st, v) == [st EXCEPT !.pc = "resolved", !.step = "none", !.result = v]

\* what a continuation leaves: the call's new state and the command it sent, if any
Goes(st, cmd) == [st |-> st, out |-> {cmd}]
Ends(st) == [st |-> st, out |-> {}]

-----------------------------------------------------------------------------
(* signTransaction *)

\* the commands of the four inner functions
step1Init(c, bip32Path) == Command(c, INS_SIGN_TRANSACTION, 0, bip32PathToBuffer(bip32Path).data)
step2TxTransfer(c, chunk) == Command(c, INS_SIGN_TRANSACTION, 1, chunk)
step3TxFinalize(c) == Command(c, INS_SIGN_TRANSACTION, 128, <<>>)
panicResetState(c) == Command(c, INS_SIGN_TRANSACTION, 1, <<>>)

\* What this.send(...).then(handler) yields for outcome r of transport.send:
\* [ok, data, err].  A thrown error passes through wrapConvertError; a
\* returned response is stripped of its status word.
Received(r) ==
    IF r.t = "throw"
    THEN [ok |-> FALSE, data |-> <<>>, err |-> wrapConvertError(r.err)]
    ELSE LET s == stripReturnCodeFromResponse(r.bytes)
         IN [ok |-> s.ok, data |-> s.data, err |-> Err(s.message)]

\* the response handler of step1Init: TRUE, or throws
step1InitThen(data) == Len(data) = 0

\* a handler that asserts the length of the payload only
step2TxTransferThenAnyByte(data) == Len(data) = 1

\* the response handler of step2TxTransfer: passes its two assertions
step2TxTransferThen(data) ==
    /\ Len(data) = 1
    /\ data[1] = SIGN_STATE_COLLECT \/ data[1] = SIGN_STATE_FINALIZE

\* a handler that accepts a response longer than the signature
step3TxFinalizeThenAtLeast(data) == Len(data) >= 1 + 32 + 32

\* the response handler of step3TxFinalize: passes its assertion
step3TxFinalizeThen(data) == Len(data) = 1 + 32 + 32

Signature(data) == [v |-> slice(data, 0, 1)[1], r |-> slice(data, 1, 33), s |-> slice(data, 33, 65)]

\* ethereumjs-util: the buffer of a number below 65536 set as a field
intToBuffer(n) == IF n < 256 THEN <<n>> ELSE <<n \div 256, n % 256>>

\* new Transaction({...tx, v: v, r: r, s: s}, options).raw: the properties
\* written after the spread replace those of tx
SpreadThenSignature(tx, v, r, s) ==
    [k \in 1..9 |->
        CASE TransactionFields[k] = "v" -> intToBuffer(v)
          [] TransactionFields[k] = "r" -> r
          [] TransactionFields[k] = "s" -> s
          [] OTHER -> FieldValue(tx, TransactionFields[k])]

\* a result whose v follows EIP-155 (chainId * 2 + 35)
SignedEip155(tx, sig) ==
    LET v == sig.v + ((FANTOM_CHAIN_ID * 2) + 35)
        raw == SpreadThenSignature(tx, v, sig.r, sig.s)
        txFinal == [tx |-> tx, v |-> v, r |-> sig.r, s |-> sig.s, raw |-> raw]
    IN [v |-> v, r |-> sig.r, s |-> sig.s, tx |-> txFinal, raw |-> encode(raw)]

\* a result built as {v, r, s, ...tx}: the properties of tx replace the
\* signature written before the spread
SignedCallerFirst(tx, sig) ==
    LET v == sig.v + ((FANTOM_CHAIN_ID * 2) + 8)
        raw == [k \in 1..9 |->
                   IF TransactionFields[k] \in tx.attrs
                   THEN FieldValue(tx, TransactionFields[k])
                   ELSE SpreadThenSignature(tx, v, sig.r, sig.s)[k]]
        txFinal == [tx |-> tx, v |-> v, r |-> sig.r, s |-> sig.s, raw |-> raw]
    IN [v |-> v, r |-> sig.r, s |-> sig.s, tx |-> txFinal, raw |-> encode(raw)]

\* the value signTransaction returns.  Transaction is the external class: it
\* is held as the object it is constructed from (tx and the signature) and
\* the array `raw` of its nine fields; serialize() encodes that array
Signed(tx, sig) ==
    LET v == sig.v + ((FANTOM_CHAIN_ID * 2) + 8)
        raw == SpreadThenSignature(tx, v, sig.r, sig.s)
        txFinal == [tx |-> tx, v |-> v, r |-> sig.r, s |-> sig.s, raw |-> raw]
    IN [v |-> v, r |-> sig.r, s |-> sig.s, tx |-> txFinal, raw |-> encode(raw)]

\* a reduce callback that transfers the next chunk whatever the device said
AfterStatusAllChunks(res, k, parts) ==
    IF k < parts THEN "chunk"
    ELSE IF res # SIGN_STATE_FINALIZE THEN "reset" ELSE "final"

\* The callback of chunks.reduce for the chunk after the first k, given what
\* the previous callback resolved with, followed (when no chunk is left) by the
\* test of finalStatus: which command goes out next.
RECURSIVE AfterStatus(_, _, _)
AfterStatus(res, k, parts) ==
    IF k < parts
    THEN IF SIGN_STATE_COLLECT = res
         THEN "chunk"
         ELSE AfterStatus(SIGN_STATE_FINALIZE, k + 1, parts)
    ELSE IF res # SIGN_STATE_FINALIZE THEN "reset" ELSE "final"

\* a transfer that takes the chunks from the end of the list
TransferReversed(c, st, res) ==
    LET next == AfterStatus(res, st.idx, Len(st.chunks))
    IN CASE next = "chunk" ->
              LET cmd == step2TxTransfer(c, st.chunks[Len(st.chunks) - st.idx])
              IN Goes(Sent([st EXCEPT !.idx = @ + 1], "chunk", cmd), cmd)
         [] next = "reset" -> Goes(Sent(st, "reset", panicResetState(c)), panicResetState(c))
         [] OTHER -> Goes(Sent(st, "final", step3TxFinalize(c)), step3TxFinalize(c))

\* the call goes on after k = st.idx chunks, the last answered with res
Transfer(c, st, res) ==
    LET next == AfterStatus(res, st.idx, Len(st.chunks))
    IN CASE next = "chunk" ->
              LET cmd == step2TxTransfer(c, st.chunks[st.idx + 1])
              IN Goes(Sent([st EXCEPT !.idx = @ + 1], "chunk", cmd), cmd)
         [] next = "reset" -> Goes(Sent(st, "reset", panicResetState(c)), panicResetState(c))
         [] OTHER -> Goes(Sent(st, "final", step3TxFinalize(c)), step3TxFinalize(c))

\* a continuation that sends a chunk again, once, when its exchange failed
SignContinueRetry(c, st0, r) ==
    LET st == [st0 EXCEPT !.log = Append(@, Rcv(r))]
        got == Received(r)
        again == step2TxTransfer(c, st.chunks[st.idx])
        first == \A i \in DOMAIN st0.log : st0.log[i].e # "thrown"
    IN CASE st.step = "init" ->
              IF ~got.ok THEN Ends(Rejected(st, got.err))
              ELSE IF ~step1InitThen(got.data) THEN Ends(Rejected(st, ValidationError))
              ELSE Transfer(c, st, SIGN_STATE_COLLECT)
         [] st.step = "chunk" ->
              IF r.t = "throw" /\ first THEN Goes(Sent(st, "chunk", again), again)
              ELSE IF ~got.ok THEN Ends(Rejected(st, got.err))
              ELSE IF ~step2TxTransferThen(got.data) THEN Ends(Rejected(st, ValidationError))
              ELSE Transfer(c, st, got.data[1])
         [] st.step = "reset" ->
              IF r.t = "throw" THEN Ends(Rejected(st, got.err))
              ELSE Ends(Rejected(st, NotRecognizedError))
         [] OTHER ->
              IF ~got.ok THEN Ends(Rejected(st, got.err))
              ELSE IF ~step3TxFinalizeThen(got.data) THEN Ends(Rejected(st, ValidationError))
              ELSE Ends(Resolved(st, Signed(st.tx, Signature(got.data))))

\* the continuation of signTransaction when outcome r of its outstanding
\* command arrives
SignContinue(c, st0, r) ==
    LET st == [st0 EXCEPT !.log = Append(@, Rcv(r))]
        got == Received(r)
    IN CASE st.step = "init" ->
              IF ~got.ok THEN Ends(Rejected(st, got.err))
              ELSE IF ~step1InitThen(got.data) THEN Ends(Rejected(st, ValidationError))
              ELSE Transfer(c, st, SIGN_STATE_COLLECT)
         [] st.step = "chunk" ->
              IF ~got.ok THEN Ends(Rejected(st, got.err))
              ELSE IF ~step2TxTransferThen(got.data) THEN Ends(Rejected(st, ValidationError))
              ELSE Transfer(c, st, got.data[1])
         [] st.step = "reset" ->
              \* panicResetState returns the raw response: only a thrown
              \* error is noticed
              IF r.t = "throw" THEN Ends(Rejected(st, got.err))
              ELSE Ends(Rejected(st, NotRecognizedError))
         [] OTHER ->
              IF ~got.ok THEN Ends(Rejected(st, got.err))
              ELSE IF ~step3TxFinalizeThen(got.data) THEN Ends(Rejected(st, ValidationError))
              ELSE Ends(Resolved(st, Signed(st.tx, Signature(got.data))))

-----------------------------------------------------------------------------
(* getVersion, deriveAddress, derivePublicKey: one command each *)

\* the flag byte taken whole
WholeFlag(flag) == flag

\* flag & 0x01
LowBit(flag) == flag % 2

\* the response handler of getVersion: [ok, val]
getVersionThen(data) ==
    IF ~(4 = Len(data)) THEN [ok |-> FALSE, val |-> <<>>]
    ELSE [ok |-> TRUE,
          val |-> [major |-> data[1], minor |-> data[2], patch |-> data[3],
                   flags |-> [isDevelopment |-> LowBit(data[4])]]]

\* a handler that does not assert that the address length is positive
deriveAddressThenAnyLength(data) ==
    IF ~(0 < Len(data)) THEN [ok |-> FALSE, val |-> ""]
    ELSE LET len == slice(data, 0, 1)[1]
         IN IF ~(len + 1 = Len(data)) THEN [ok |-> FALSE, val |-> ""]
            ELSE [ok |-> TRUE, val |-> "0x" \o buffer2Hex(slice(data, 1, 1 + len))]

\* the response handler of deriveAddress: [ok, val]
deriveAddressThen(data) ==
    IF ~(0 < Len(data)) THEN [ok |-> FALSE, val |-> ""]
    ELSE LET len == slice(data, 0, 1)[1]
         IN IF ~(0 < len) \/ ~(len + 1 = Len(data)) THEN [ok |-> FALSE, val |-> ""]
            ELSE [ok |-> TRUE, val |-> "0x" \o buffer2Hex(slice(data, 1, 1 + len))]

\* a handler that expects the length byte and one key only
derivePublicKeyThenOneKey(data) ==
    IF ~(0 < Len(data)) THEN [ok |-> FALSE, val |-> <<>>]
    ELSE LET len == slice(data, 0, 1)[1]
         IN IF ~(1 + len = Len(data)) THEN [ok |-> FALSE, val |-> <<>>]
            ELSE [ok |-> TRUE,
                  val |-> [publicKey |-> slice(data, 1, 1 + len),
                           chainKey |-> slice(data, 1 + len, 1 + len + len)]]

\* the response handler of derivePublicKey: [ok, val]
derivePublicKeyThen(data) ==
    IF ~(0 < Len(data)) THEN [ok |-> FALSE, val |-> <<>>]
    ELSE LET len == slice(data, 0, 1)[1]
         IN IF ~(1 + len + len = Len(data)) THEN [ok |-> FALSE, val |-> <<>>]
            ELSE [ok |-> TRUE,
                  val |-> [publicKey |-> slice(data, 1, 1 + len),
                           chainKey |-> slice(data, 1 + len, 1 + len + len)]]

\* the commands
getVersion(c) == Command(c, INS_GET_VERSION, 0, <<>>)
deriveAddress(c, bip32Path, confirmAddress) ==
    Command(c, INS_GET_ADDRESS, IF confirmAddress THEN 2 ELSE 1, bip32PathToBuffer(bip32Path).data)
derivePublicKey(c, bip32Path) ==
    Command(c, INS_GET_PUBLIC_KEY, 0, bip32PathToBuffer(bip32Path).data)

\* the continuation of a call whose single command, or whose current
\* derivation of listAddresses, is answered with outcome r
SimpleContinue(c, st0, r) ==
    LET st == [st0 EXCEPT !.log = Append(@, Rcv(r))]
        got == Received(r)
        parsed == CASE st.step = "version" -> getVersionThen(got.data)
                    [] st.step = "address" -> deriveAddressThen(got.data)
                    [] OTHER -> derivePublicKeyThen(got.data)
    IN IF ~got.ok THEN Ends(Rejected(st, got.err))
       ELSE IF ~parsed.ok THEN Ends(Rejected(st, ValidationError))
       ELSE IF st.method # "listAddresses" THEN Ends(Resolved(st, parsed.val))
       ELSE \* the reduce callback of listAddresses stores the address; after
            \* the last path the list is returned
            LET more == [st EXCEPT !.result = Append(@, parsed.val)]
            IN IF st.idx < Len(st.paths)
               THEN Ends([more EXCEPT !.pc = "gap", !.step = "none"])
               ELSE Ends(Resolved(more, more.result))

Continue(c, st, r) ==
    IF st.method = "signTransaction" THEN SignContinue(c, st, r) ELSE SimpleContinue(c, st, r)

-----------------------------------------------------------------------------
(* Actions.  A caller starts one API call; a decorated method (one of        *)
(* `methods`) rejects when the lock is held, else holds the lock from its   *)
(* start until its promise settles.  A call made while the lock is held    *)
(* is rejected at once; a caller that waits instead is a caller that       *)
(* starts later.                                                           *)

Begin(c, method) == [call[c] EXCEPT !.method = method]

\* the call ends without having sent anything
Fails(c, st, e) ==
    /\ call' = [call EXCEPT ![c] = Rejected(st, e)]
    /\ UNCHANGED <<appAPIlock, wire>>

\* the method `name`, let in by its wrapper, sends its first command
Starts(c, st, name, step, cmd) ==
    /\ call' = [call EXCEPT ![c] = Sent(st, step, cmd)]
    /\ wire' = wire \cup {cmd}
    /\ appAPIlock' = Acquire(name)

\* a method of one command: the wrapper's lock test, the path check, the send
Single(c, st, name, path, step, cmd) ==
    IF Busy(name) THEN Fails(c, st, BusyError(appAPIlock))
    ELSE IF ~isValidBip32Path(path) THEN Fails(c, st, ValidationError)
    ELSE Starts(c, [st EXCEPT !.path = path], name, step, cmd)

CallGetVersion(c) ==
    /\ call[c].pc = "idle"
    /\ LET st == Begin(c, "getVersion")
       IN IF Busy("getVersion") THEN Fails(c, st, BusyError(appAPIlock))
          ELSE Starts(c, st, "getVersion", "version", getVersion(c))

CallDeriveAddress(c, path, confirmAddress) ==
    /\ call[c].pc = "idle"
    /\ Single(c, [Begin(c, "deriveAddress") EXCEPT !.confirm = confirmAddress],
              "deriveAddress", path, "address", deriveAddress(c, path, confirmAddress))

CallDerivePublicKey(c, path) ==
    /\ call[c].pc = "idle"
    /\ Single(c, Begin(c, "derivePublicKey"), "derivePublicKey", path, "pubkey",
              derivePublicKey(c, path))

\* getAddress is not decorated: it builds the path, then calls deriveAddress
CallGetAddress(c, accountId, addressId, confirmAddress) ==
    /\ call[c].pc = "idle"
    /\ LET p == getBip32Path(accountId, addressId)
           st == [Begin(c, "getAddress") EXCEPT !.confirm = confirmAddress,
                                                !.args = <<accountId, addressId>>]
       IN IF ~p.ok THEN Fails(c, st, ValidationError)
          ELSE Single(c, st, "deriveAddress", p.path, "address",
                      deriveAddress(c, p.path, confirmAddress))

\* getPublicKey is not decorated: it builds the path, then calls derivePublicKey
CallGetPublicKey(c, accountId, addressId) ==
    /\ call[c].pc = "idle"
    /\ LET p == getBip32Path(accountId, addressId)
           st == [Begin(c, "getPublicKey") EXCEPT !.args = <<accountId, addressId>>]
       IN IF ~p.ok THEN Fails(c, st, ValidationError)
          ELSE Single(c, st, "derivePublicKey", p.path, "pubkey",
                      derivePublicKey(c, p.path))

\* a listAddresses that checks the first path only before it starts
CallListAddressesLazy(c, accountId, firstAddressId, length) ==
    /\ call[c].pc = "idle"
    /\ LET st == [Begin(c, "listAddresses") EXCEPT
                     !.args = <<accountId, firstAddressId, length>>]
           argsOk == isUint32(firstAddressId) /\ isUint8(length) /\ NumGE(length, Num(0, 1))
           built == [i \in 1..(IF argsOk THEN length.lo ELSE 0) |->
                        getBip32Path(accountId, NumAdd(firstAddressId, i - 1))]
       IN IF ~argsOk \/ ~built[1].ok
          THEN Fails(c, st, ValidationError)
          ELSE /\ call' = [call EXCEPT ![c] =
                              [st EXCEPT !.pc = "gap", !.paths = [i \in DOMAIN built |-> built[i].path]]]
               /\ UNCHANGED <<appAPIlock, wire>>

\* listAddresses is not decorated.  It checks its arguments and builds every
\* path before the reduce starts; the first callback calls deriveAddress only
\* after its await, so the call is first in a gap.
CallListAddresses(c, accountId, firstAddressId, length) ==
    /\ call[c].pc = "idle"
    /\ LET st == [Begin(c, "listAddresses") EXCEPT
                     !.args = <<accountId, firstAddressId, length>>]
           argsOk == isUint32(firstAddressId) /\ isUint8(length) /\ NumGE(length, Num(0, 1))
           built == [i \in 1..(IF argsOk THEN length.lo ELSE 0) |->
                        getBip32Path(accountId, NumAdd(firstAddressId, i - 1))]
       IN IF ~argsOk \/ \E i \in DOMAIN built : ~built[i].ok
          THEN Fails(c, st, ValidationError)
          ELSE /\ call' = [call EXCEPT ![c] =
                              [st EXCEPT !.pc = "gap", !.paths = [i \in DOMAIN built |-> built[i].path]]]
               /\ UNCHANGED <<appAPIlock, wire>>

\* a reduce that walks the paths from the last to the first
ListNextFromEnd(c) ==
    /\ call[c].pc = "gap"
    /\ LET st == [call[c] EXCEPT !.idx = @ + 1]
           path == st.paths[Len(st.paths) - st.idx + 1]
       IN Single(c, st, "deriveAddress", path, "address", deriveAddress(c, path, FALSE))

\* the next reduce callback of listAddresses calls deriveAddress(next, false)
ListNext(c) ==
    /\ call[c].pc = "gap"
    /\ LET st == [call[c] EXCEPT !.idx = @ + 1]
           path == st.paths[st.idx]
       IN Single(c, st, "deriveAddress", path, "address", deriveAddress(c, path, FALSE))

\* signTransaction is decorated.  Everything up to the init command runs
\* without an await: the validation of tx, the chunks, the path.
CallSignTransaction(c, accountId, addressId, tx) ==
    /\ call[c].pc = "idle"
    /\ LET st == [Begin(c, "signTransaction") EXCEPT !.tx = tx,
                                                      !.args = <<accountId, addressId>>]
           p == getBip32Path(accountId, addressId)
       IN IF Busy("signTransaction") THEN Fails(c, st, BusyError(appAPIlock))
          ELSE IF ~isValidTransaction(tx) THEN Fails(c, st, isValidTransactionError(tx))
          ELSE IF ~p.ok \/ ~isValidBip32Path(p.path) THEN Fails(c, st, ValidationError)
          ELSE Starts(c, [st EXCEPT !.chunks = MakeChunks(getRawTransaction(tx)),
                                    !.path = p.path],
                      "signTransaction", "init", step1Init(c, p.path))

\* The transport answers the outstanding command of call c and the call's
\* continuation runs to its next await or to its end.  The lock is released
\* when the decorated method's promise settles.
Respond(c, rich) ==
    /\ call[c].pc = "wait"
    /\ \E cmd \in wire :
         /\ cmd.call = c
         /\ \E r \in Responses(cmd, rich) :
              LET k == Continue(c, call[c], r)
              IN /\ call' = [call EXCEPT ![c] = k.st]
                 /\ wire' = (wire \ {cmd}) \cup k.out
                 /\ appAPIlock' = IF k.st.pc = "wait" THEN appAPIlock
                                   ELSE Release(Inner(call[c].method))

-----------------------------------------------------------------------------
(* Arguments the callers draw.  `rich` is TRUE when one call is explored    *)
(* with every kind of argument, FALSE when several callers run together    *)
(* and each passes valid arguments only.                                   *)

Hardened(n) == NumAdd(BIP32_HARDENED, n)
Zero == Num(0, 0)
MaxUint32 == Num(65535, 65535)

GoodPath == <<Hardened(44), Hardened(60), Hardened(0), Zero, Zero>>

PathInputs(rich) ==
    IF ~rich THEN {GoodPath}
    ELSE {GoodPath,
          <<Hardened(44), Hardened(60), Hardened(255), Zero, MaxUint32>>,
          \* wrong first element: another purpose, not hardened, the bare marker
          <<Hardened(45), Hardened(60), Hardened(0), Zero, Zero>>,
          <<Num(0, 44), Hardened(60), Hardened(0), Zero, Zero>>,
          <<BIP32_HARDENED, Hardened(60), Hardened(0), Zero, Zero>>,
          \* wrong second element
          <<Hardened(44), Hardened(61), Hardened(0), Zero, Zero>>,
          <<Hardened(44), Num(0, 60), Hardened(0), Zero, Zero>>,
          \* third element not hardened
          <<Hardened(44), Hardened(60), Zero, Zero, Zero>>,
          <<Hardened(44), Hardened(60), Num(32767, 65535), Zero, Zero>>,
          \* other lengths
          <<>>,
          <<Hardened(44), Hardened(60)>>,
          <<Hardened(44), Hardened(60), Hardened(0)>>,
          <<Hardened(44), Hardened(60), Hardened(0), Zero>>,
          <<Hardened(44), Hardened(60), Hardened(0), Zero, Zero, Zero>>,
          \* an element that is no unsigned 32 bit integer
          <<Hardened(44), Hardened(60), Hardened(0), Zero, Num(65536, 0)>>,
          <<Hardened(44), Hardened(60), Hardened(0), Zero, Num(-1, 65535)>>,
          <<Hardened(44), Hardened(60), Hardened(0), Zero, Frac>>}

AccountInputs(rich) ==
    IF rich THEN {Zero, Num(0, 255), Num(0, 256), Num(-1, 65535), Frac} ELSE {Zero}

AddressInputs(rich) ==
    IF rich THEN {Zero, MaxUint32, Num(65536, 0)} ELSE {Zero}

ConfirmInputs(rich) == IF rich THEN BOOLEAN ELSE {TRUE}

FirstInputs(rich) ==
    IF rich THEN {Zero, Num(65535, 65534), MaxUint32, Num(65536, 0)} ELSE {Zero}

LengthInputs(rich) ==
    IF rich THEN {Num(0, n) : n \in 0..MaxListLen} \cup {Num(0, 256), Frac}
    ELSE {Num(0, 2)}

FullAttrs == {"nonce", "gasPrice", "gasLimit", "to", "value", "data"}

Tx(attrs, raw, len) ==
    [type |-> "object", attrs |-> attrs, raw |-> raw, len |-> len, seed |-> len % 7]

\* null and undefined passed for tx
NullTx == [NoTx EXCEPT !.type = "null"]
UndefinedTx == [NoTx EXCEPT !.type = "undefined"]

\* the length of the signing payload of a transaction with len bytes of data
PayloadLen(len) == Len(getRawTransaction(Tx(FullAttrs, FALSE, len)))

\* lengths of data: none, and those that bring the payload to a multiple of
\* the chunk size, one byte below and one byte above, up to MaxParts chunks
TxLens ==
    {0} \cup
    {n \in 0..(MaxParts * MAX_APDU_CHUNK_LENGTH) :
        /\ PayloadLen(n) <= MaxParts * MAX_APDU_CHUNK_LENGTH
        /\ PayloadLen(n) % MAX_APDU_CHUNK_LENGTH \in {0, 1, MAX_APDU_CHUNK_LENGTH - 1}}

\* transactions: plain objects with every field and data of each length, one
\* lacking each required field, one without `to` and `data`, carriers of an
\* array `raw` with and without fields, an object whose `raw` is no array,
\* a signed transaction, null and undefined
TxInputs(rich) ==
    IF ~rich THEN {Tx(FullAttrs, FALSE, MAX_APDU_CHUNK_LENGTH + 1)}
    ELSE {Tx(FullAttrs, FALSE, L) : L \in TxLens}
         \cup {Tx(FullAttrs \ {a}, FALSE, 0) : a \in REQUIRED_TX_ATTRIBUTES}
         \cup {Tx(REQUIRED_TX_ATTRIBUTES, FALSE, 0),
               Tx({"raw"}, TRUE, 0),
               Tx({"raw", "to", "data"}, TRUE, MAX_APDU_CHUNK_LENGTH + 1),
               Tx({"raw"}, FALSE, 0),
               Tx(FullAttrs \cup {"v", "r", "s"}, FALSE, 1),
               NullTx, UndefinedTx}

-----------------------------------------------------------------------------
(* Specifications *)

\* the callers' moves, with the arguments drawn
GetVersion(c) == CallGetVersion(c)

DeriveAddress(c, rich) ==
    \E path \in PathInputs(rich), confirm \in ConfirmInputs(rich) :
        CallDeriveAddress(c, path, confirm)

DerivePublicKey(c, rich) == \E path \in PathInputs(rich) : CallDerivePublicKey(c, path)

GetAddress(c, rich) ==
    \E a \in AccountInputs(rich), i \in AddressInputs(rich), confirm \in ConfirmInputs(rich) :
        CallGetAddress(c, a, i, confirm)

GetPublicKey(c, rich) ==
    \E a \in AccountInputs(rich), i \in AddressInputs(rich) : CallGetPublicKey(c, a, i)

ListAddresses(c, rich) ==
    \E a \in AccountInputs(rich), f \in FirstInputs(rich), n \in LengthInputs(rich) :
        CallListAddresses(c, a, f, n)

SignTransaction(c, rich) ==
    \E a \in AccountInputs(rich), i \in AddressInputs(rich), tx \in TxInputs(rich) :
        CallSignTransaction(c, a, i, tx)

\* one call, every kind of argument and of answer
Init ==
    /\ appAPIlock = NoLock
    /\ call = [c \in {1} |-> IdleCall]
    /\ wire = {}

Next ==
    \E c \in {1} :
        \/ GetVersion(c)
        \/ DeriveAddress(c, TRUE)
        \/ DerivePublicKey(c, TRUE)
        \/ GetAddress(c, TRUE)
        \/ GetPublicKey(c, TRUE)
        \/ ListAddresses(c, TRUE)
        \/ ListNext(c)
        \/ SignTransaction(c, TRUE)
        \/ Respond(c, TRUE)

Spec == Init /\ [][Next]_vars

\* NumCalls callers, each making one call at any moment
InitConc ==
    /\ appAPIlock = NoLock
    /\ call = [c \in 1..NumCalls |-> IdleCall]
    /\ wire = {}

NextConc ==
    \E c \in 1..NumCalls :
        \/ GetVersion(c)
        \/ DeriveAddress(c, FALSE)
        \/ DerivePublicKey(c, FALSE)
        \/ GetAddress(c, FALSE)
        \/ GetPublicKey(c, FALSE)
        \/ ListAddresses(c, FALSE)
        \/ ListNext(c)
        \/ SignTransaction(c, FALSE)
        \/ Respond(c, FALSE)

SpecConc == InitConc /\ [][NextConc]_vars

-----------------------------------------------------------------------------
(* Properties *)

IsSign(c) == call[c].method = "signTransaction"

IsCmd(e, p1) == e.e = "snd" /\ e.ins = INS_SIGN_TRANSACTION /\ e.p1 = p1
IsInitCmd(e) == IsCmd(e, 0)
IsChunkCmd(e) == IsCmd(e, 1) /\ e.data # <<>>
IsResetCmd(e) == IsCmd(e, 1) /\ e.data = <<>>
IsFinalCmd(e) == IsCmd(e, 128)

\* the commands of a log, in the order sent
Sends(log) == SelectSeq(log, LAMBDA e : e.e = "snd")

\* log[i] is the device's answer `payload` with the success status to a chunk command
ChunkAnswer(log, i, payload) ==
    /\ i >= 2 /\ i \in DOMAIN log
    /\ IsChunkCmd(log[i - 1])
    /\ log[i].e = "rcv"
    /\ log[i].data = payload \o <<144, 0>>

\* C1: in every signTransaction session the init command (p1 = 0, payload the
\* encoded path) is the first command; every command is sent only after the
\* answer to the one before it has arrived; the chunk commands follow the init
\* command without a gap and the j-th of them carries the bytes at offset
\* (j - 1) * MAX_APDU_CHUNK_LENGTH of the payload; a session that succeeded
\* sent the finalize command (p1 = 0x80) last, and once.
C1_CommandOrder ==
    \A c \in DOMAIN call :
        IsSign(c) =>
            LET log == call[c].log
                S == Sends(log)
                buf == getRawTransaction(call[c].tx)
            IN /\ \A i \in DOMAIN log : (log[i].e = "snd") <=> (i % 2 = 1)
               /\ S # <<>> =>
                     /\ IsInitCmd(S[1])
                     /\ S[1].data = <<5>> \o PathBytes(call[c].path)
               /\ \A j \in 2..Len(S) : ~IsInitCmd(S[j])
               /\ \A j \in DOMAIN S :
                     IsChunkCmd(S[j]) =>
                        /\ j >= 2
                        /\ \A i \in 2..j : IsChunkCmd(S[i])
                        /\ S[j].data = SubSeq(buf, (j - 2) * MAX_APDU_CHUNK_LENGTH + 1,
                                              IF (j - 1) * MAX_APDU_CHUNK_LENGTH < Len(buf)
                                              THEN (j - 1) * MAX_APDU_CHUNK_LENGTH ELSE Len(buf))
               /\ call[c].pc = "resolved" =>
                     /\ IsFinalCmd(S[Len(S)])
                     /\ \A j \in 1..(Len(S) - 1) : ~IsFinalCmd(S[j])

\* a session that sent three chunks and then succeeded
C1_Witness ==
    \E c \in DOMAIN call :
        IsSign(c) /\ call[c].pc = "resolved" /\ Len(Sends(call[c].log)) = 5

\* C2: once the device has answered a chunk command with FINALIZE (0x04), the
\* session sends no further chunk command, and the command it sends next is
\* the finalize command.
C2_NoChunkAfterFinalize ==
    \A c \in DOMAIN call :
        IsSign(c) =>
            LET log == call[c].log
            IN \A i \in DOMAIN log :
                  ChunkAnswer(log, i, <<SIGN_STATE_FINALIZE>>) =>
                     /\ \A j \in (i + 1)..Len(log) : ~IsChunkCmd(log[j])
                     /\ i + 1 \in DOMAIN log
                     /\ IsFinalCmd(log[i + 1])

\* the device finalizes on the first of three chunks
C2_Witness ==
    \E c \in DOMAIN call :
        /\ IsSign(c)
        /\ Len(call[c].chunks) = 3
        /\ ChunkAnswer(call[c].log, 4, <<SIGN_STATE_FINALIZE>>)
        /\ call[c].pc = "resolved"

\* every chunk of the session was sent and answered with COLLECT
AllCollect(c) ==
    LET log == call[c].log
        answered == {i \in DOMAIN log : i >= 2 /\ IsChunkCmd(log[i - 1]) /\ log[i].e # "snd"}
    IN /\ call[c].chunks # <<>>
       /\ Cardinality(answered) = Len(call[c].chunks)
       /\ \A i \in answered : ChunkAnswer(log, i, <<SIGN_STATE_COLLECT>>)

\* C3: when the device answers COLLECT to every chunk, the client sends
\* exactly one reset command (p1 = 0x01, empty payload) after the last chunk,
\* never the finalize command, and the call rejects with the 'transaction not
\* recognized' error.
C3_ResetThenNotRecognized ==
    \A c \in DOMAIN call :
        (IsSign(c) /\ AllCollect(c)) =>
            LET log == call[c].log
            IN /\ Cardinality({i \in DOMAIN log : IsResetCmd(log[i])}) = 1
               /\ \A i \in DOMAIN log : ~IsFinalCmd(log[i])
               /\ call[c].pc # "resolved"
               /\ call[c].pc = "rejected" => call[c].error = NotRecognizedError

\* C4: a session that has sent the init command and ended in an error has
\* sent a reset command before.
C4_FailedOnlyAfterReset ==
    \A c \in DOMAIN call :
        (IsSign(c) /\ call[c].pc = "rejected" /\ call[c].log # <<>>) =>
            \E i \in DOMAIN call[c].log : IsResetCmd(call[c].log[i])

\* a signTransaction session is in progress: it has sent a command and has
\* not settled
InSession(st) == st.method = "signTransaction" /\ st.log # <<>> /\ st.pc = "wait"

\* C5: while a signTransaction session of one caller is in progress (from its
\* first command to the answer to its last), no other signTransaction call
\* sends its first command.
C5_SessionsSerialized ==
    [][\A a, b \in DOMAIN call :
          (a # b /\ InSession(call[a])) =>
              ~(call'[b].method = "signTransaction" /\ call[b].log = <<>> /\ call'[b].log # <<>>)]_vars

\* one session has had its init command answered and is still in progress,
\* and a second signTransaction call was turned away without sending
C5_Witness ==
    \E a, b \in DOMAIN call :
        /\ a # b
        /\ InSession(call[a]) /\ Len(call[a].log) >= 3
        /\ IsSign(b) /\ call[b].pc = "rejected" /\ call[b].log = <<>>

\* C6: at most one command is outstanding on the transport.
C6_OneOutstanding == Cardinality(wire) <= 1

\* a command is outstanding while another caller's listAddresses is between
\* two of its derivations
C6_Witness ==
    \E a, b \in DOMAIN call :
        /\ a # b
        /\ call[a].pc = "wait" /\ wire # {}
        /\ call[b].method = "listAddresses" /\ call[b].pc = "gap" /\ call[b].idx = 1

C8_Chunking ==
    \A c \in DOMAIN call :
        (IsSign(c) /\ call[c].log # <<>>) =>
            LET buf == getRawTransaction(call[c].tx)
                n == Len(call[c].chunks)
            IN /\ n * MAX_APDU_CHUNK_LENGTH >= Len(buf)
               /\ (n - 1) * MAX_APDU_CHUNK_LENGTH < Len(buf)
               /\ Flatten(call[c].chunks) = buf

\* a payload of exactly two chunk sizes, cut into two chunks
C8_Witness ==
    \E c \in DOMAIN call :
        /\ IsSign(c) /\ call[c].log # <<>>
        /\ Len(getRawTransaction(call[c].tx)) = 2 * MAX_APDU_CHUNK_LENGTH
        /\ Len(call[c].chunks) = 2

\* the call sent a command for the path it was given
SentForPath(c) ==
    /\ call[c].method \in {"deriveAddress", "derivePublicKey"}
    /\ call[c].log # <<>>

\* C9: no path is accepted whose first element is not 0x80000000 + 44, whose
\* second is not 0x80000000 + 60 or whose third is below 0x80000000.
C9_PrefixChecked ==
    \A c \in DOMAIN call :
        SentForPath(c) =>
            /\ At(call[c].path, 0) = Hardened(44)
            /\ At(call[c].path, 1) = Hardened(60)
            /\ NumGE(At(call[c].path, 2), BIP32_HARDENED)

\* C10: no path of a length other than 5 is accepted, sent or encoded.
C10_LengthFive ==
    \A c \in DOMAIN call :
        SentForPath(c) =>
            /\ Len(call[c].path) = 5
            /\ Len(call[c].log[1].data) = 21

\* the call was made with an account and an address index
HasAccountAddress(c) ==
    /\ call[c].method \in {"getAddress", "getPublicKey", "signTransaction"}
    /\ Len(call[c].args) = 2

\* x is an integer in 0..255, in 0..2^32-1
InUint8(x) == x.kind = "int" /\ x.hi = 0 /\ x.lo \in 0..255
InUint32(x) == x.kind = "int" /\ x.hi \in 0..65535 /\ x.lo \in 0..65535

\* the 21 bytes of the path of account a and address i
PathBuffer21(a, i) ==
    <<5, 128, 0, 0, 44, 128, 0, 0, 60, 128, 0, 0, a.lo, 0, 0, 0, 0,
      i.hi \div 256, i.hi % 256, i.lo \div 256, i.lo % 256>>

\* C11: for accountId in 0..255 and addressId in 0..2^32-1 getBip32Path
\* returns [0x80000000+44, 0x80000000+60, 0x80000000+accountId, 0, addressId],
\* the path passes isValidBip32Path and bip32PathToBuffer of it is the byte 5
\* and the five elements as big-endian 4-byte values (21 bytes), which is
\* what the call sends; for arguments outside those ranges getBip32Path
\* throws and the call ends with nothing sent.
C11_PathBuilt ==
    \A c \in DOMAIN call :
        HasAccountAddress(c) =>
            LET a == call[c].args[1]
                i == call[c].args[2]
                p == getBip32Path(a, i)
            IN IF InUint8(a) /\ InUint32(i)
               THEN /\ p.ok
                    /\ p.path = <<Num(32768, 44), Num(32768, 60), Num(32768, a.lo), Num(0, 0), i>>
                    /\ isValidBip32Path(p.path)
                    /\ bip32PathToBuffer(p.path) = [ok |-> TRUE, data |-> PathBuffer21(a, i)]
                    /\ Len(bip32PathToBuffer(p.path).data) = 21
                    /\ call[c].log # <<>> => call[c].log[1].data = PathBuffer21(a, i)
               ELSE /\ ~p.ok
                    /\ call[c].pc = "rejected"
                    /\ call[c].log = <<>>

\* getAddress of the last account and the last address index sent its command
C11_Witness ==
    \E c \in DOMAIN call :
        /\ call[c].method = "getAddress"
        /\ call[c].args = <<Num(0, 255), MaxUint32>>
        /\ call[c].log # <<>>

\* log[i] is a response transport.send returned to a method that strips it
\* (panicResetState alone hands its response on unread)
Stripped(log, i) ==
    /\ i >= 2 /\ i \in DOMAIN log
    /\ log[i].e = "rcv"
    /\ ~IsResetCmd(log[i - 1])

\* C12: stripReturnCodeFromResponse(B ++ 0x90 0x00) is B; for a response of
\* two bytes or more that does not end in 0x9000 it throws an error whose
\* message carries the two status bytes in hex; for a shorter response it
\* throws.  The error is the one the call rejects with.
C12_StripRoundTrip ==
    \A c \in DOMAIN call :
        \A i \in DOMAIN call[c].log :
            Stripped(call[c].log, i) =>
                LET R == call[c].log[i].data
                    n == Len(R)
                    r == stripReturnCodeFromResponse(R)
                IN /\ (n >= 2 /\ R[n - 1] = 144 /\ R[n] = 0) =>
                         /\ r.ok
                         /\ r.data \o <<144, 0>> = R
                   /\ (n >= 2 /\ ~(R[n - 1] = 144 /\ R[n] = 0)) =>
                         /\ ~r.ok
                         /\ r.message = "Invalid response status code "
                                        \o ByteHex(R[n - 1]) \o ByteHex(R[n]) \o " received."
                         /\ i = Len(call[c].log)
                         /\ call[c].pc = "rejected"
                         /\ call[c].error = Err(r.message)
                   /\ n < 2 =>
                         /\ ~r.ok
                         /\ i = Len(call[c].log)
                         /\ call[c].pc = "rejected"

\* a response with one payload byte and the status 0x6e06 was received and
\* the call rejected with that status in its message
C12_Witness ==
    \E c \in DOMAIN call :
        /\ Len(call[c].log) = 2
        /\ Stripped(call[c].log, 2)
        /\ call[c].log[2].data = <<4, 110, 6>>
        /\ call[c].error.message = "Invalid response status code 6e06 received."

\* the transaction fails the validation: it is no carrier of an array `raw`
\* and lacks a required field
TxInvalid(tx) ==
    /\ ~(tx.type = "object" /\ "raw" \in tx.attrs /\ tx.raw)
    /\ \E a \in {"nonce", "gasPrice", "gasLimit", "value"} : a \notin tx.attrs

\* the arguments of listAddresses(accountId, firstAddressId, length) that the
\* claim names: length outside 1..255, firstAddressId no uint32, or the last
\* address index above 2^32 - 1
ListArgsInvalid(args) ==
    LET first == args[2]
        length == args[3]
    IN \/ ~(InUint8(length) /\ length.lo >= 1)
       \/ ~InUint32(first)
       \/ ~InUint32(NumAdd(first, length.lo - 1))

\* C13: a signTransaction call whose transaction fails validation or whose
\* accountId / addressId is out of range, and a listAddresses call whose
\* length is not in 1..255, whose firstAddressId is no uint32 or whose last
\* index exceeds 2^32 - 1, fails with no command sent.
C13_ValidationBeforeIO ==
    \A c \in DOMAIN call :
        /\ (/\ IsSign(c) /\ Len(call[c].args) = 2
            /\ \/ TxInvalid(call[c].tx)
               \/ ~InUint8(call[c].args[1])
               \/ ~InUint32(call[c].args[2])) =>
              /\ call[c].pc = "rejected"
              /\ call[c].log = <<>>
        /\ (/\ call[c].method = "listAddresses" /\ Len(call[c].args) = 3
            /\ ListArgsInvalid(call[c].args)) =>
              /\ call[c].pc = "rejected"
              /\ call[c].log = <<>>
              /\ call[c].error = ValidationError

\* listAddresses(0, 2^32 - 1, 2): the first path is valid, the second is not
C13_Witness ==
    \E c \in DOMAIN call :
        /\ call[c].method = "listAddresses"
        /\ call[c].args = <<Zero, MaxUint32, Num(0, 2)>>
        /\ call[c].pc = "rejected"

\* C14: a listAddresses(accountId, firstAddressId, length) that succeeded has
\* sent exactly `length` GET_ADDRESS commands with p1 = 0x01, the j-th for
\* address index firstAddressId + j - 1, each after the answer to the one
\* before, and returns `length` addresses, the j-th taken from the j-th answer.
C14_ListInOrder ==
    \A c \in DOMAIN call :
        (call[c].method = "listAddresses" /\ call[c].pc = "resolved") =>
            LET log == call[c].log
                account == call[c].args[1]
                first == call[c].args[2]
                length == call[c].args[3].lo
            IN /\ Len(log) = 2 * length
               /\ Len(call[c].result) = length
               /\ \A j \in 1..length :
                     /\ log[2 * j - 1].e = "snd"
                     /\ log[2 * j - 1].ins = INS_GET_ADDRESS
                     /\ log[2 * j - 1].p1 = 1
                     /\ log[2 * j - 1].data = PathBuffer21(account, NumAdd(first, j - 1))
                     /\ log[2 * j].e = "rcv"
                     /\ LET R == log[2 * j].data
                        IN call[c].result[j] = "0x" \o buffer2Hex(SubSeq(R, 2, Len(R) - 2))

\* two addresses were listed and the device gave two different answers
C14_Witness ==
    \E c \in DOMAIN call :
        /\ call[c].method = "listAddresses" /\ call[c].pc = "resolved"
        /\ call[c].args[2] = Num(65535, 65534)
        /\ Len(call[c].result) = 2
        /\ call[c].result[1] = "0xabcd"
        /\ call[c].result[2] # "0xabcd"

\* log[i] is the outcome of an exchange that failed: transport.send threw
\* (a transport error or a timeout), or the response does not end in the
\* success status
ExchangeFailed(log, i) ==
    \/ log[i].e = "thrown"
    \/ /\ log[i].e = "rcv"
       /\ LET R == log[i].data
              n == Len(R)
          IN ~(n >= 2 /\ R[n - 1] = 144 /\ R[n] = 0)

\* log[i] answers a GET_ADDRESS command with a payload deriveAddress refuses
DerivationRefused(log, i) ==
    /\ i >= 2
    /\ log[i - 1].e = "snd" /\ log[i - 1].ins = INS_GET_ADDRESS
    /\ log[i].e = "rcv"
    /\ LET P == SubSeq(log[i].data, 1, Len(log[i].data) - 2)
       IN ~(Len(P) >= 1 /\ P[1] > 0 /\ Len(P) = 1 + P[1])

\* C15: nothing is retried.  A signTransaction session sends the init command
\* once at most, each chunk once at most (the j-th chunk command carries
\* chunk j and there are no more chunk commands than chunks) and the finalize
\* command once at most; in a signTransaction or a listAddresses call an
\* exchange that failed, or a derivation that failed, is the last thing that
\* happened and the call has rejected.
C15_NoRetry ==
    \A c \in DOMAIN call :
        LET log == call[c].log
            S == Sends(log)
            chunkCmds == SelectSeq(S, IsChunkCmd)
        IN /\ IsSign(c) =>
                /\ Cardinality({j \in DOMAIN S : IsInitCmd(S[j])}) <= 1
                /\ Cardinality({j \in DOMAIN S : IsFinalCmd(S[j])}) <= 1
                /\ Len(chunkCmds) <= Len(call[c].chunks)
                /\ \A j \in DOMAIN chunkCmds : chunkCmds[j].data = call[c].chunks[j]
           /\ call[c].method \in {"signTransaction", "listAddresses"} =>
                \A i \in DOMAIN log :
                    (ExchangeFailed(log, i) \/ DerivationRefused(log, i)) =>
                        /\ i = Len(log)
                        /\ call[c].pc = "rejected"

\* the exchange of the second of three chunks threw and the session ended
C15_Witness ==
    \E c \in DOMAIN call :
        /\ IsSign(c) /\ Len(call[c].chunks) = 3
        /\ Len(call[c].log) = 6
        /\ call[c].log[6].e = "thrown"
        /\ call[c].pc = "rejected"

\* log[i] is a response with the success status to a chunk command
ChunkResponse(log, i) ==
    /\ i >= 2 /\ i \in DOMAIN log
    /\ IsChunkCmd(log[i - 1])
    /\ log[i].e = "rcv"
    /\ Len(log[i].data) >= 2
    /\ SubSeq(log[i].data, Len(log[i].data) - 1, Len(log[i].data)) = <<144, 0>>

\* C16: a chunk response whose payload is not the single byte 0x02 or 0x04
\* (empty, longer, another value) ends the call with a validation error and
\* nothing is sent after it, no chunk, no reset and no finalize command; a
\* payload of 0x02 or 0x04 lets the session send its next command.
C16_ChunkResponseByte ==
    \A c \in DOMAIN call :
        IsSign(c) =>
            \A i \in DOMAIN call[c].log :
                ChunkResponse(call[c].log, i) =>
                    LET P == SubSeq(call[c].log[i].data, 1, Len(call[c].log[i].data) - 2)
                    IN IF P = <<2>> \/ P = <<4>>
                       THEN /\ i < Len(call[c].log)
                            /\ call[c].log[i + 1].e = "snd"
                       ELSE /\ i = Len(call[c].log)
                            /\ call[c].pc = "rejected"
                            /\ call[c].error = ValidationError

\* the first of three chunks was answered with the byte 0x03
C16_Witness ==
    \E c \in DOMAIN call :
        /\ IsSign(c) /\ Len(call[c].chunks) = 3
        /\ ChunkResponse(call[c].log, 4)
        /\ call[c].log[4].data = <<3, 144, 0>>
        /\ call[c].pc = "rejected"

\* the encoding of the nine fields the claim lists, for the transaction tx
NineFields(tx) ==
    encode(<<FieldValue(tx, "nonce"), FieldValue(tx, "gasPrice"), FieldValue(tx, "gasLimit"),
             FieldValue(tx, "to"), FieldValue(tx, "value"), FieldValue(tx, "data"),
             <<250>>, <<>>, <<>>>>)

\* the serialization of the transaction with the signature sig in its last
\* three fields
SignedSerialized(tx, sig) ==
    encode(<<FieldValue(tx, "nonce"), FieldValue(tx, "gasPrice"), FieldValue(tx, "gasLimit"),
             FieldValue(tx, "to"), FieldValue(tx, "value"), FieldValue(tx, "data"),
             <<sig.v \div 256, sig.v % 256>>, sig.r, sig.s>>)

\* C17: the payload signTransaction cuts into chunks and streams is the
\* encoding of nine fields in this order: nonce, gasPrice, gasLimit, to,
\* value, data of the transaction, the chain id 250, and two empty fields.
\* The chunk commands sent so far carry its first bytes in order, and it is
\* neither the transaction's own nine fields nor the signed transaction.
C17_SigningPayload ==
    \A c \in DOMAIN call :
        (IsSign(c) /\ call[c].log # <<>>) =>
            LET tx == call[c].tx
                payload == NineFields(tx)
                sentChunks == SelectSeq(call[c].log, IsChunkCmd)
                streamed == Flatten([j \in DOMAIN sentChunks |-> sentChunks[j].data])
            IN /\ Flatten(call[c].chunks) = payload
               /\ streamed = SubSeq(payload, 1, Len(streamed))
               /\ Len(sentChunks) = Len(call[c].chunks) => streamed = payload
               /\ payload # encode(TransactionRaw(tx))
               /\ call[c].pc = "resolved" =>
                     payload # SignedSerialized(tx, call[c].result)

\* a transaction with every field and no data was streamed in one chunk: the
\* list header, nonce, gasPrice, gasLimit, the 20 bytes of `to` after their
\* length, value, the empty data, 0x81 0xfa for the chain id, two empty fields
C17_Witness ==
    \E c \in DOMAIN call :
        /\ IsSign(c) /\ call[c].pc = "resolved"
        /\ call[c].log[3].data =
              <<222, 1, 2, 3, 148>> \o [i \in 1..20 |-> 63 + i] \o <<5, 128, 129, 250, 128, 128>>

\* log[i] is a response with the success status to the finalize command
FinalResponse(log, i) ==
    /\ i >= 2 /\ i \in DOMAIN log
    /\ IsFinalCmd(log[i - 1])
    /\ log[i].e = "rcv"
    /\ Len(log[i].data) >= 2
    /\ SubSeq(log[i].data, Len(log[i].data) - 1, Len(log[i].data)) = <<144, 0>>

C19_RequiredFields ==
    \A c \in DOMAIN call :
        (IsSign(c) /\ Len(call[c].args) = 2) =>
            /\ TxInvalid(call[c].tx) =>
                  /\ call[c].pc = "rejected"
                  /\ call[c].log = <<>>
                  /\ call[c].error = ValidationError
            /\ (/\ call[c].tx.type = "object" /\ "raw" \in call[c].tx.attrs /\ call[c].tx.raw
                /\ InUint8(call[c].args[1]) /\ InUint32(call[c].args[2])) =>
                  call[c].log # <<>>

\* the call is one derivation of an address and has sent its command
OneAddress(c) ==
    /\ call[c].method \in {"deriveAddress", "getAddress"}
    /\ call[c].log # <<>>

\* C20: deriveAddress sends GET_ADDRESS with p1 = 0x02 when confirmAddress is
\* true and 0x01 otherwise and the encoded path as payload.  It succeeds only
\* on a response whose payload is a length byte n > 0 followed by exactly n
\* bytes and returns "0x" and the hex of those bytes; it fails on an empty
\* payload, on n = 0 and on a total length other than 1 + n.
C20_DeriveAddress ==
    \A c \in DOMAIN call :
        OneAddress(c) =>
            LET log == call[c].log
                path == call[c].path
            IN /\ log[1] = Snd([ins |-> 17,
                                p1 |-> IF call[c].confirm THEN 2 ELSE 1,
                                data |-> <<Len(path)>> \o PathBytes(path)])
               /\ (Len(log) = 2 /\ ~ExchangeFailed(log, 2)) =>
                     LET P == SubSeq(log[2].data, 1, Len(log[2].data) - 2)
                     IN IF Len(P) >= 1 /\ P[1] > 0 /\ Len(P) = 1 + P[1]
                        THEN /\ call[c].pc = "resolved"
                             /\ call[c].result = "0x" \o buffer2Hex(SubSeq(P, 2, Len(P)))
                        ELSE /\ call[c].pc = "rejected"
                             /\ call[c].error = ValidationError
               /\ call[c].pc = "resolved" => (Len(log) = 2 /\ ~ExchangeFailed(log, 2))

\* deriveAddress with confirmation got the two bytes ab cd and returned "0xabcd"
C20_Witness ==
    \E c \in DOMAIN call :
        /\ call[c].method = "deriveAddress" /\ call[c].confirm
        /\ Len(call[c].log) = 2
        /\ call[c].log[1].p1 = 2
        /\ call[c].log[2].data = <<2, 171, 205, 144, 0>>
        /\ call[c].pc = "resolved"
        /\ call[c].result = "0xabcd"

\* the call is one derivation of a public key and has sent its command
OnePublicKey(c) ==
    /\ call[c].method \in {"derivePublicKey", "getPublicKey"}
    /\ call[c].log # <<>>

\* C21: derivePublicKey sends GET_PUBLIC_KEY with p1 = 0 and the encoded path.
\* It succeeds only on a response whose payload has 1 + 2N bytes, N its first
\* byte, and returns publicKey = bytes 1..N and chainKey = bytes N+1..2N; on
\* any other length, and on an empty payload, it fails.
C21_DerivePublicKey ==
    \A c \in DOMAIN call :
        OnePublicKey(c) =>
            LET log == call[c].log
                path == call[c].path
            IN /\ log[1] = Snd([ins |-> 16, p1 |-> 0,
                                data |-> <<Len(path)>> \o PathBytes(path)])
               /\ (Len(log) = 2 /\ ~ExchangeFailed(log, 2)) =>
                     LET P == SubSeq(log[2].data, 1, Len(log[2].data) - 2)
                     IN IF Len(P) >= 1 /\ Len(P) = 1 + 2 * P[1]
                        THEN /\ call[c].pc = "resolved"
                             /\ call[c].result.publicKey = [k \in 1..P[1] |-> P[1 + k]]
                             /\ call[c].result.chainKey = [k \in 1..P[1] |-> P[1 + P[1] + k]]
                        ELSE /\ call[c].pc = "rejected"
                             /\ call[c].error = ValidationError
               /\ call[c].pc = "resolved" => (Len(log) = 2 /\ ~ExchangeFailed(log, 2))

\* the device answered 02 0a 0b 0c 0d and the call returned the two halves
C21_Witness ==
    \E c \in DOMAIN call :
        /\ call[c].method = "derivePublicKey"
        /\ Len(call[c].log) = 2
        /\ call[c].log[2].data = <<2, 10, 11, 12, 13, 144, 0>>
        /\ call[c].pc = "resolved"
        /\ call[c].result = [publicKey |-> <<10, 11>>, chainKey |-> <<12, 13>>]

\* C22: getVersion sends GET_VERSION with an empty payload.  It succeeds only
\* on a response payload of exactly 4 bytes and returns major, minor, patch
\* from bytes 0..2 and isDevelopment = byte 3 & 0x01 (the lowest bit of the
\* byte); on any other payload length it fails.
C22_GetVersion ==
    \A c \in DOMAIN call :
        (call[c].method = "getVersion" /\ call[c].log # <<>>) =>
            LET log == call[c].log
            IN /\ log[1] = Snd([ins |-> 1, p1 |-> 0, data |-> <<>>])
               /\ (Len(log) = 2 /\ ~ExchangeFailed(log, 2)) =>
                     LET P == SubSeq(log[2].data, 1, Len(log[2].data) - 2)
                     IN IF Len(P) = 4
                        THEN /\ call[c].pc = "resolved"
                             /\ call[c].result.major = P[1]
                             /\ call[c].result.minor = P[2]
                             /\ call[c].result.patch = P[3]
                             /\ call[c].result.flags.isDevelopment \in {0, 1}
                             /\ (call[c].result.flags.isDevelopment = 1) <=> (P[4] % 2 = 1)
                        ELSE /\ call[c].pc = "rejected"
                             /\ call[c].error = ValidationError
               /\ call[c].pc = "resolved" => (Len(log) = 2 /\ ~ExchangeFailed(log, 2))

\* the flag byte 0xfe, whose lowest bit is clear, gave isDevelopment = 0
C22_Witness ==
    \E c \in DOMAIN call :
        /\ call[c].method = "getVersion" /\ call[c].pc = "resolved"
        /\ call[c].log[2].data = <<1, 0, 0, 254, 144, 0>>
        /\ call[c].result.flags.isDevelopment = 0

-----------------------------------------------------------------------------
(* C23  Whenever the transport throws, the call rejects with that same      *)
(* failure; if the error thrown carries a status code, its message is       *)
(* "Ledger device: " followed by the table's message for a code             *)
(* 0x6E01..0x6E09 and by "Unknown error 0x<code>. Please consult the        *)
(* manual." for any other code; an error without a status code is passed    *)
(* on unchanged.                                                            *)

\* the message the status table, or the generic text, gives for a code
ConvertedMessage(code) ==
    "Ledger device: " \o
    (IF code \in 28161..28169 THEN ErrorMessages[code]
     ELSE "Unknown error 0x" \o ToHex(code) \o ". Please consult the manual.")

\* the transport never throws in the middle of a call that goes on
ThrownEndsCall(c) ==
    \A i \in DOMAIN call[c].log :
        call[c].log[i].e = "thrown" => i = Len(call[c].log) /\ call[c].pc = "rejected"

C23_ErrorConversion ==
    \A c \in DOMAIN call :
        /\ ThrownEndsCall(c)
        /\ \A i \in DOMAIN call[c].log :
              call[c].log[i].e = "thrown" =>
                 LET e == call[c].log[i].err
                 IN /\ call[c].error.statusCode = e.statusCode
                    /\ call[c].error.message =
                          IF e.statusCode = -1 THEN e.message
                          ELSE ConvertedMessage(e.statusCode)

-----------------------------------------------------------------------------
(* Transaction builders: src/src/sfc-utils.js (the revision at lines 1-86) *)
(* and src/src/defi-utils.js (the revision at lines 1-565).  A builder is  *)
(* a synchronous function: the call of a builder resolves with the         *)
(* transaction structure it returns or rejects with what it throws.        *)

SFC_CONTRACT_ADDRESS == "0xfc00face00000000000000000000000000000000"
DEFAULT_GAS_LIMIT == "0xabe0"
DEFI_DEFAULT_GAS_LIMIT == "0x2dc6c0"
ZERO_AMOUNT == "0x0"
OPERA_CHAIN_ID == "0xfa"
\* an address is held as its sequence of characters where its case matters
NATIVE_TOKEN == <<"0", "x">> \o [i \in 1..40 |-> "f"]

\* x < y of two JavaScript values (false when either is not a number)
NumLT(x, y) == x.kind # "undefined" /\ y.kind # "undefined" /\ ~NumGE(x, y)

\* Number.isInteger
NumberIsInteger(x) == x.kind = "int"

\* a non-integer number v + 0.5, v = h * 65536 + l
Half(h, l) == [kind |-> "frac", hi |-> h, lo |-> l]

RECURSIVE DecDigits(_)
\* the decimal digits of a natural number
DecDigits(n) == IF n < 10 THEN <<n>> ELSE Append(DecDigits(n \div 10), n % 10)

RECURSIVE Normalize(_)
\* BN: a number is its decimal digits without leading zeros, zero is <<>>
Normalize(ds) == IF ds # <<>> /\ Head(ds) = 0 THEN Normalize(Tail(ds)) ELSE ds

\* web3Utils.toWei(amount.toString(10), "ether") of a number that is not
\* negative: the digits of amount * 10^18
toWei(amount) ==
    LET whole == DecDigits(amount.hi * 65536 + amount.lo)
        fraction == IF amount.kind = "frac" THEN <<5>> \o [i \in 1..17 |-> 0]
                    ELSE [i \in 1..18 |-> 0]
    IN Normalize(whole \o fraction)

RECURSIVE LongDiv16(_, _, _)
\* BN division by 16, as long division of the digits ds after quotient digits
\* q and remainder r: quotient digits and remainder
LongDiv16(ds, q, r) ==
    IF ds = <<>> THEN [q |-> q, r |-> r]
    ELSE LET cur == r * 10 + Head(ds)
         IN LongDiv16(Tail(ds), Append(q, cur \div 16), cur % 16)

RECURSIVE HexDigits(_)
\* BN.toString(16) of a number that is not zero, as characters
HexDigits(ds) ==
    LET n == Normalize(ds)
    IN IF n = <<>> THEN <<>>
       ELSE LET d == LongDiv16(n, <<>>, 0)
            IN Append(HexDigits(d.q), HexChars[d.r + 1])

RECURSIVE Join(_)
\* the string of a sequence of characters
Join(chars) ==
    IF Len(chars) = 0 THEN ""
    ELSE IF Len(chars) = 1 THEN chars[1]
    ELSE Join(SubSeq(chars, 1, Len(chars) \div 2))
         \o Join(SubSeq(chars, (Len(chars) \div 2) + 1, Len(chars)))

\* web3Utils.numberToHex of a number, or decimal string, that is not negative
numberToHex(ds) == "0x" \o (IF Normalize(ds) = <<>> THEN "0" ELSE Join(HexDigits(ds)))

LowerChar(ch) ==
    CASE ch = "A" -> "a" [] ch = "B" -> "b" [] ch = "C" -> "c" [] ch = "D" -> "d"
      [] ch = "E" -> "e" [] ch = "F" -> "f" [] ch = "X" -> "x" [] OTHER -> ch

\* String.prototype.toLocaleLowerCase on the characters of an address
toLocaleLowerCase(s) == [i \in DOMAIN s |-> LowerChar(s[i])]

\* ABI: one 32 byte word, as 64 hex characters
Uint256Word(ds) == [i \in 1..(64 - Len(HexDigits(ds))) |-> "0"] \o HexDigits(ds)
AddressWord(address) ==
    [i \in 1..24 |-> "0"] \o SubSeq(toLocaleLowerCase(address), 3, Len(address))

\* web3.eth.abi.encodeFunctionCall: the selector of the function's signature
\* and the words of its parameters
encodeFunctionCall(selector, words) == "0x" \o selector \o Join(Flatten(words))

\* encodeCall(client, abi, params)
encodeCall(selector, words) == encodeFunctionCall(selector, words)

\* what a builder returns or throws: [ok, tx, err]
Built(tx) == [ok |-> TRUE, tx |-> tx, err |-> ""]
Thrown(msg) == [ok |-> FALSE, tx |-> <<>>, err |-> msg]

\* the transaction createDelegationTx makes
DelegationTx(amount, to) ==
    [nonce |-> "undefined",
     gasPrice |-> "undefined",
     gasLimit |-> DEFAULT_GAS_LIMIT,
     to |-> SFC_CONTRACT_ADDRESS,
     value |-> numberToHex(toWei(amount)),
     chainId |-> OPERA_CHAIN_ID,
     data |-> encodeCall("c312eb07", <<Uint256Word(DecDigits(to.hi * 65536 + to.lo))>>)]

createDelegationTxIdFirst(amount, to) ==
    IF NumGE(Num(0, 0), to)
    THEN Thrown("Validator id must be positive unsigned integer value.")
    ELSE IF ~NumberIsInteger(to) \/ NumGE(Num(0, 0), to)
    THEN Thrown("Validator id must be positive unsigned integer value.")
    ELSE IF NumLT(amount, Num(0, 1))
    THEN Thrown("Amount value can not be lower than minimal delegation amount.")
    ELSE Built(DelegationTx(amount, to))

createDelegationTx(amount, to) ==
    \* validate amount
    IF NumLT(amount, Num(0, 1))
    THEN Thrown("Amount value can not be lower than minimal delegation amount.")
    \* validate staking id
    ELSE IF NumGE(Num(0, 0), to)
    THEN Thrown("Validator id must be positive unsigned integer value.")
    \* validate staking id to be uint
    ELSE IF ~NumberIsInteger(to) \/ NumGE(Num(0, 0), to)
    THEN Thrown("Validator id must be positive unsigned integer value.")
    ELSE Built(DelegationTx(amount, to))

\* the transaction of a DeFi call `selector`(address _token, uint256 _amount)
DefiTx(liquidityPoolContract, value, selector, tokenAddress, amount) ==
    [nonce |-> "undefined",
     gasPrice |-> "undefined",
     gasLimit |-> DEFI_DEFAULT_GAS_LIMIT,
     to |-> liquidityPoolContract,
     value |-> value,
     data |-> encodeFunctionCall(selector, <<AddressWord(tokenAddress), Uint256Word(amount)>>),
     chainId |-> OPERA_CHAIN_ID]

defiDepositTokenTxCaseSensitive(liquidityPoolContract, tokenAddress, amount) ==
    LET value == IF tokenAddress = NATIVE_TOKEN THEN numberToHex(amount) ELSE ZERO_AMOUNT
    IN Built(DefiTx(liquidityPoolContract, value, "47e7ef24", tokenAddress, amount))

defiDepositTokenTx(liquidityPoolContract, tokenAddress, amount) ==
    \* is the token native FTM?
    LET value == IF toLocaleLowerCase(tokenAddress) = NATIVE_TOKEN
                 THEN numberToHex(amount)
                 ELSE ZERO_AMOUNT
    IN Built(DefiTx(liquidityPoolContract, value, "47e7ef24", tokenAddress, amount))

defiWithdrawDepositedTokenTx(liquidityPoolContract, tokenAddress, amount) ==
    Built(DefiTx(liquidityPoolContract, ZERO_AMOUNT, "f3fef3a3", tokenAddress, amount))

defiBuyTokenTx(liquidityPoolContract, tokenAddress, amount) ==
    Built(DefiTx(liquidityPoolContract, ZERO_AMOUNT, "cce7ec13", tokenAddress, amount))

defiSellTokenTx(liquidityPoolContract, tokenAddress, amount) ==
    Built(DefiTx(liquidityPoolContract, ZERO_AMOUNT, "6c197ff5", tokenAddress, amount))

defiBorrowTokenTx(liquidityPoolContract, tokenAddress, amount) ==
    Built(DefiTx(liquidityPoolContract, ZERO_AMOUNT, "4b8a3529", tokenAddress, amount))

defiRepayTokenTx(liquidityPoolContract, tokenAddress, amount) ==
    Built(DefiTx(liquidityPoolContract, ZERO_AMOUNT, "22867d78", tokenAddress, amount))

\* the caller's call of a builder with arguments args had outcome r; a
\* builder throws a string, which is held as the message of the error
Builds(c, method, args, r) ==
    /\ call[c].pc = "idle"
    /\ call' = [call EXCEPT ![c] =
                   IF r.ok
                   THEN Resolved([Begin(c, method) EXCEPT !.args = args], r.tx)
                   ELSE Rejected([Begin(c, method) EXCEPT !.args = args], Err(r.err))]
    /\ UNCHANGED <<appAPIlock, wire>>

\* the arguments drawn: amounts -1, -0.5, 0, 0.5, 1, 1.5, 2 and 123758431.5
DelegationAmounts ==
    {Num(-1, 65535), Half(-1, 65535), Num(0, 0), Half(0, 0), Num(0, 1), Half(0, 1),
     Num(0, 2), Half(1888, 26463)}

\* validator ids -1, 0, 0.5, 1.5, 1, 17 and 173898
ValidatorIds ==
    {Num(-1, 65535), Num(0, 0), Half(0, 0), Half(0, 1), Num(0, 1), Num(0, 17),
     Num(2, 42826)}

PoolContracts ==
    {"0xabababababababababababababababababababac",
     "0xabababababababababababababababababababa3"}

\* the native token in lower case, in upper case and with its checksum's
\* case, a token that differs from it in the last character, another token
TokenAddresses ==
    {NATIVE_TOKEN,
     <<"0", "x">> \o [i \in 1..40 |-> "F"],
     <<"0", "x", "F", "F", "f", "F", "f", "F", "f", "f", "F", "F", "f",
       "f", "f", "F", "F", "f", "F", "F", "f", "F", "F", "F", "F", "F",
       "f", "f", "F", "F", "F", "f", "f", "f", "f", "F", "f", "F", "F",
       "F", "f", "F">>,
     <<"0", "x">> \o [i \in 1..39 |-> "f"] \o <<"e">>,
     <<"0", "x">> \o
        [i \in 1..40 |-> IF i = 40 THEN "d" ELSE IF i % 2 = 1 THEN "a" ELSE "c"]}

\* the decimal strings "0", "7", "250000000", "300000000"
TokenAmounts ==
    {<<0>>, <<7>>, <<2, 5, 0, 0, 0, 0, 0, 0, 0>>, <<3, 0, 0, 0, 0, 0, 0, 0, 0>>}

CreateDelegationTx(c) ==
    \E amount \in DelegationAmounts, to \in ValidatorIds :
        Builds(c, "createDelegationTx", <<amount, to>>, createDelegationTx(amount, to))

DefiDepositTokenTx(c) ==
    \E pool \in PoolContracts, token \in TokenAddresses, amount \in TokenAmounts :
        Builds(c, "defiDepositTokenTx", <<pool, token, amount>>,
               defiDepositTokenTx(pool, token, amount))

DefiWithdrawDepositedTokenTx(c) ==
    \E pool \in PoolContracts, token \in TokenAddresses, amount \in TokenAmounts :
        Builds(c, "defiWithdrawDepositedTokenTx", <<pool, token, amount>>,
               defiWithdrawDepositedTokenTx(pool, token, amount))

DefiBuyTokenTx(c) ==
    \E pool \in PoolContracts, token \in TokenAddresses, amount \in TokenAmounts :
        Builds(c, "defiBuyTokenTx", <<pool, token, amount>>,
               defiBuyTokenTx(pool, token, amount))

DefiSellTokenTx(c) ==
    \E pool \in PoolContracts, token \in TokenAddresses, amount \in TokenAmounts :
        Builds(c, "defiSellTokenTx", <<pool, token, amount>>,
               defiSellTokenTx(pool, token, amount))

DefiBorrowTokenTx(c) ==
    \E pool \in PoolContracts, token \in TokenAddresses, amount \in TokenAmounts :
        Builds(c, "defiBorrowTokenTx", <<pool, token, amount>>,
               defiBorrowTokenTx(pool, token, amount))

DefiRepayTokenTx(c) ==
    \E pool \in PoolContracts, token \in TokenAddresses, amount \in TokenAmounts :
        Builds(c, "defiRepayTokenTx", <<pool, token, amount>>,
               defiRepayTokenTx(pool, token, amount))

\* one caller builds one transaction, with every kind of argument
NextTx ==
    \E c \in {1} :
        \/ CreateDelegationTx(c)
        \/ DefiDepositTokenTx(c)
        \/ DefiWithdrawDepositedTokenTx(c)
        \/ DefiBuyTokenTx(c)
        \/ DefiSellTokenTx(c)
        \/ DefiBorrowTokenTx(c)
        \/ DefiRepayTokenTx(c)

SpecTx == Init /\ [][NextTx]_vars

-----------------------------------------------------------------------------
(* C24  createDelegationTx(amount, to) throws the minimal delegation amount *)
(* error for every amount below 1; otherwise it throws the validator id    *)
(* error for every validator id that is not a positive integer; the amount *)
(* check comes first; for valid input the result has to = the SFC contract *)
(* address, chainId = "0xfa" and gasLimit = "0xabe0".                      *)

IsBuilder(c, name) == call[c].method = name /\ call[c].pc \in {"resolved", "rejected"}

\* a number below 1: its whole part is below 1
BelowOne(x) == x.hi < 0 \/ (x.hi = 0 /\ x.lo = 0)
PositiveInteger(x) == x.kind = "int" /\ (x.hi > 0 \/ (x.hi = 0 /\ x.lo > 0))

C24_DelegationChecks ==
    \A c \in DOMAIN call :
        IsBuilder(c, "createDelegationTx") =>
            LET amount == call[c].args[1]
                to == call[c].args[2]
            IN IF BelowOne(amount)
               THEN /\ call[c].pc = "rejected"
                    /\ call[c].error.message =
                          "Amount value can not be lower than minimal delegation amount."
               ELSE IF ~PositiveInteger(to)
               THEN /\ call[c].pc = "rejected"
                    /\ call[c].error.message =
                          "Validator id must be positive unsigned integer value."
               ELSE /\ call[c].pc = "resolved"
                    /\ call[c].result.to = "0xfc00face00000000000000000000000000000000"
                    /\ call[c].result.chainId = "0xfa"
                    /\ call[c].result.gasLimit = "0xabe0"

\* both arguments are invalid and the amount's error is the one thrown; and
\* a transaction is built for valid arguments
C24_Witness ==
    \E c \in DOMAIN call :
        /\ IsBuilder(c, "createDelegationTx")
        /\ call[c].args = <<Half(0, 0), Half(0, 1)>>
        /\ call[c].pc = "rejected"
        /\ call[c].error.message =
              "Amount value can not be lower than minimal delegation amount."

-----------------------------------------------------------------------------
(* C25  defiDepositTokenTx sets the value to the hex of the amount exactly  *)
(* when the token address equals the native token address 0xffff...ffff    *)
(* compared without regard to case, and to "0x0" for every other token;    *)
(* the withdraw, buy, sell, borrow and repay builders always produce value *)
(* "0x0"; every builder sets `to` to the given pool contract and chainId   *)
(* to "0xfa".                                                              *)

DefiBuilders ==
    {"defiDepositTokenTx", "defiWithdrawDepositedTokenTx", "defiBuyTokenTx",
     "defiSellTokenTx", "defiBorrowTokenTx", "defiRepayTokenTx"}

\* the address is 0x and forty times f or F
IsNativeToken(token) ==
    /\ Len(token) = 42
    /\ token[1] = "0" /\ token[2] \in {"x", "X"}
    /\ \A i \in 3..42 : token[i] \in {"f", "F"}

C25_DefiValue ==
    \A c \in DOMAIN call :
        \A name \in DefiBuilders :
            IsBuilder(c, name) =>
                LET pool == call[c].args[1]
                    token == call[c].args[2]
                    amount == call[c].args[3]
                IN /\ call[c].pc = "resolved"
                   /\ call[c].result.to = pool
                   /\ call[c].result.chainId = "0xfa"
                   /\ call[c].result.value =
                         IF name = "defiDepositTokenTx" /\ IsNativeToken(token)
                         THEN numberToHex(amount)
                         ELSE "0x0"

\* a deposit of the native token written in mixed case carries the amount
C25_Witness ==
    \E c \in DOMAIN call :
        /\ IsBuilder(c, "defiDepositTokenTx")
        /\ call[c].args[2] # NATIVE_TOKEN
        /\ call[c].args[3] = <<2, 5, 0, 0, 0, 0, 0, 0, 0>>
        /\ call[c].result.value = "0xee6b280"
        /\ call[c].result.data =
              "0x47e7ef24000000000000000000000000ffffffffffffffffffffffffffffffffffffffff"
              \o "000000000000000000000000000000000000000000000000000000000ee6b280"

-----------------------------------------------------------------------------
(* C26  When every chunk was sent and answered COLLECT, signTransaction     *)
(* rejects with the 'Transaction data was not recognized' error whatever   *)
(* the outcome of the reset command's exchange: a success, a non-success   *)
(* status returned for it, or an error thrown by the transport.            *)

\* the reset command of the session was sent and its exchange is over
ResetAnswered(c) ==
    \E i \in DOMAIN call[c].log :
        /\ i >= 2
        /\ IsResetCmd(call[c].log[i - 1])
        /\ call[c].log[i].e \in {"rcv", "thrown"}

C26_ResetOutcomeIgnored ==
    \A c \in DOMAIN call :
        (IsSign(c) /\ AllCollect(c) /\ ResetAnswered(c)) =>
            /\ call[c].pc = "rejected"
            /\ call[c].error = NotRecognizedError

-----------------------------------------------------------------------------
(* C27  Every payload of a signTransaction session fits one transport       *)
(* frame: each chunk command carries between 1 and MAX_APDU_CHUNK_LENGTH   *)
(* bytes, every chunk but the last carries exactly MAX_APDU_CHUNK_LENGTH   *)
(* bytes, a payload whose length is a multiple of the chunk length gets no *)
(* empty chunk at its end, and the init payload is the encoded path of 21  *)
(* bytes.                                                                  *)

-----------------------------------------------------------------------------
(* C28  While a listAddresses call is in progress, between its first        *)
(* GET_ADDRESS command and its last response, no command of another API    *)
(* call of the instance is on the transport: the call holds the device.    *)

\* listAddresses of caller b has sent a command and has not had its last
\* response yet
ListInProgress(b) ==
    /\ call[b].method = "listAddresses"
    /\ call[b].log # <<>>
    /\ \/ call[b].pc = "wait"
       \/ call[b].pc = "gap" /\ call[b].idx < Len(call[b].paths)

C28_ListHoldsDevice ==
    \A a, b \in DOMAIN call :
        (a # b /\ ListInProgress(b)) => ~ \E cmd \in wire : cmd.call = a

-----------------------------------------------------------------------------
(* C29  No method named in `methods` calls another method named there while *)
(* it runs, so one top-level call never asks for the lock it holds; this   *)
(* holds for the method lists of both constructors.                        *)

\* the list of the earlier constructor
methodsEarlier == {"getVersion", "getAddress", "listAddresses", "getPublicKey", "signTransaction"}

\* the methods of the instance a method calls (this.<name>(...)), the same in
\* both revisions but for getRawTransaction and getTransactionSignatureOptions,
\* which the earlier one does not have
Callees(name) ==
    CASE name = "getVersion" -> {"send"}
      [] name = "getAddress" -> {"getBip32Path", "deriveAddress"}
      [] name = "listAddresses" -> {"getBip32Path", "deriveAddress"}
      [] name = "getPublicKey" -> {"getBip32Path", "derivePublicKey"}
      [] name = "getRawTransaction" -> {"getTransactionSignatureOptions"}
      [] name = "signTransaction" ->
             {"getRawTransaction", "getBip32Path", "getTransactionSignatureOptions", "send"}
      [] name = "deriveAddress" -> {"send"}
      [] name = "derivePublicKey" -> {"send"}
      [] OTHER -> {}

\* the methods that run, directly or not, while `name` runs
Reaches(name) ==
    LET one == Callees(name)
        two == UNION {Callees(m) : m \in one}
        three == UNION {Callees(m) : m \in two}
    IN one \cup two \cup three

NoNestedLock(list) == \A name \in list : Reaches(name) \cap list = {}

C29_NoNestedLock ==
    /\ NoNestedLock(methods)
    /\ NoNestedLock(methodsEarlier)
    /\ \A c \in DOMAIN call :
          \* the method the model lets take the lock is the called method or
          \* one it reaches, and the only one of them that is decorated
          /\ call[c].method # "none" =>
                /\ Inner(call[c].method) \in {call[c].method} \cup Reaches(call[c].method)
                /\ ({call[c].method} \cup Reaches(call[c].method)) \cap methods
                      \subseteq {Inner(call[c].method)}
          \* the one caller is never refused the lock, which only it can hold
          /\ call[c].pc = "rejected" => call[c].error # BusyError(Inner(call[c].method))
          /\ call[c].pc = "wait" => appAPIlock = Inner(call[c].method)

\* an undecorated method is waiting for a decorated one it called, which
\* holds the lock
C29_Witness ==
    \E c \in DOMAIN call :
        /\ call[c].method = "listAddresses"
        /\ call[c].pc = "wait" /\ call[c].idx = 2
        /\ appAPIlock = "deriveAddress"

-----------------------------------------------------------------------------
(* C30  The signature of the signed transaction signTransaction returns    *)
(* comes from the device: also when the caller's transaction has v, r or s *)
(* fields, the v, r and s of the returned transaction are the device's v   *)
(* plus 508 and the device's r and s, and every other field is the one of  *)
(* the caller's transaction.                                               *)

C30_DeviceSignature ==
    \A c \in DOMAIN call :
        (IsSign(c) /\ call[c].pc = "resolved") =>
            LET answer == call[c].log[Len(call[c].log)].data
                res == call[c].result
                tx == call[c].tx
                v == answer[1] + 508
            IN /\ res.tx.raw[7] = (IF v < 256 THEN <<v>> ELSE <<v \div 256, v % 256>>)
               /\ res.tx.raw[8] = SubSeq(answer, 2, 33)
               /\ res.tx.raw[9] = SubSeq(answer, 34, 65)
               /\ \A k \in 1..6 : res.tx.raw[k] = TransactionRaw(tx)[k]
               /\ res.raw = encode(res.tx.raw)

\* a transaction that came with v, r and s was signed, and the device's
\* signature differs from the one it came with
C30_Witness ==
    \E c \in DOMAIN call :
        /\ IsSign(c) /\ call[c].pc = "resolved"
        /\ {"v", "r", "s"} \subseteq call[c].tx.attrs
        /\ call[c].log[Len(call[c].log)].data[1] = 27
        /\ call[c].result.tx.raw[7] = <<2, 23>>
        /\ call[c].result.tx.raw[7] # FieldValue(call[c].tx, "v")
        /\ call[c].result.tx.raw[8] # FieldValue(call[c].tx, "r")

====
